---- MODULE Spec2Model ----
(***************************************************************************)
(* Chapter generation workflow of the novel-writing backend:               *)
(* backend/app/api/chapters.py (chapter CRUD, check_prerequisites,         *)
(* blocking and streaming generation) and backend/app/api/outlines.py      *)
(* (create_outline, delete_outline).                                       *)
(*                                                                         *)
(* Text is a sequence of one-character strings; the SQL NULL / Python None *)
(* is the sequence NULL, which no text equals.                             *)
(***************************************************************************)
EXTENDS Integers, Sequences, FiniteSets, TLC

VARIABLES
    db,       \* committed content of the Content Store
    req,      \* the generation request and the answer of its pre-flight part
    gen,      \* locals of event_generator and its position
    sess,     \* the AsyncSession event_generator obtained from get_db
    events,   \* server-sent events the generator has yielded so far
    obs,      \* observations of the run (calls made on the session, cancellation)
    last,     \* the store handler that completed last, with the store before it
    ctx       \* input and output of the previous-content builder

vars == <<db, req, gen, sess, events, obs, last, ctx>>

----------------------------------------------------------------------------
(* Bounds *)

MaxChapters == 3      \* chapter / outline rows of the store
MaxTokens   == 2      \* chunks the Generation Client yields in one stream
MaxOther    == 1      \* requests of other clients interleaved with one stream
MaxOps      == 2      \* store handlers run in a row
MaxPrev     == 5      \* prerequisite chapters handed to the context builder
MaxItems    == 2      \* items of one reorder request, entries of one generated outline
MaxUsers    == 3      \* user ids known to the user manager
MaxConfigs  == 3      \* API configuration rows
MaxClients  == 2      \* API configuration requests in progress at once
MaxTasks    == 2      \* operations of the user manager in progress at once
MaxCharacters == 2    \* character rows

(* Program constants *)

RecentWindow == 3     \* chapters.py:316  previous_chapters[-3:]
ExcerptLen   == 200   \* chapters.py:322  ch.content[:200]
HistoryLen   == 500   \* chapters.py:396  ai_content[:500]

----------------------------------------------------------------------------
(* Text *)

NULL == <<"NULL">>
WS   == " "

Min(a, b) == IF a < b THEN a ELSE b
Max(a, b) == IF a > b THEN a ELSE b

\* Python s[:n]
Prefix(s, n) == SubSeq(s, 1, Min(n, Len(s)))

\* Python str.strip()
RECURSIVE LStrip(_)
LStrip(s) == IF s # <<>> /\ Head(s) = WS THEN LStrip(Tail(s)) ELSE s

RECURSIVE RStrip(_)
RStrip(s) == IF s # <<>> /\ s[Len(s)] = WS THEN RStrip(SubSeq(s, 1, Len(s) - 1)) ELSE s

Strip(s) == RStrip(LStrip(s))

\* Python truthiness of an Optional[str]
Truthy(c) == c # NULL /\ c # <<>>

\* chapters.py:197   not ch.content or ch.content.strip() == ""
Incomplete(c) == ~Truthy(c) \/ Strip(c) = <<>>

\* Python len() of a text
StrLen(c) == Len(c)

\* chapters.py:117   chapter.word_count or 0   (the column default is 0)
OrZero(n) == n

----------------------------------------------------------------------------
(* Content Store: db.projects  project id -> current_words                  *)
(*                db.chapters  chapter id -> row                            *)
(*                db.outlines  outline id -> row                            *)
(*                db.history   GenerationHistory rows, oldest first         *)

ProjectIds == {"p1", "p2"}
ChapterIds == 1..MaxChapters
OutlineIds == 1..MaxChapters
Positions  == 1..MaxChapters

ChapterRow(p, n, t, c, w, s) ==
    [project_id |-> p, chapter_number |-> n, title |-> t,
     content |-> c, word_count |-> w, status |-> s]

OutlineRow(p, n, t, c) ==
    [project_id |-> p, order_index |-> n, title |-> t, content |-> c]

HistoryRow(p, c, text) ==
    [project_id |-> p, chapter_id |-> c, generated_content |-> text]

\* remove key k from function f
Without(f, k) == [x \in DOMAIN f \ {k} |-> f[x]]

\* add or replace key k
With(f, k, v) == [x \in DOMAIN f \cup {k} |-> IF x = k THEN v ELSE f[x]]

\* ids of S ordered by key(id), ties by id: ORDER BY of the queries
RECURSIVE OrderBy(_, _)
OrderBy(S, key) ==
    IF S = {} THEN <<>>
    ELSE LET m == CHOOSE x \in S :
                    \A y \in S : key[x] < key[y] \/ (key[x] = key[y] /\ x <= y)
         IN  <<m>> \o OrderBy(S \ {m}, key)

RECURSIVE SumWords(_, _)
SumWords(chs, S) ==
    IF S = {} THEN 0
    ELSE LET x == CHOOSE y \in S : TRUE
         IN  chs[x].word_count + SumWords(chs, S \ {x})

ChaptersOf(chs, p) == {i \in DOMAIN chs : chs[i].project_id = p}

----------------------------------------------------------------------------
(* Precondition Checker *)

\* chapters.py:186-192  the prerequisite query, as a list of chapter ids
PreviousChaptersUnordered(chs, cid) ==
    LET me == chs[cid]
        S  == {i \in DOMAIN chs :
                  /\ chs[i].project_id = me.project_id
                  /\ chs[i].chapter_number < me.chapter_number}
    IN  OrderBy(S, [i \in S |-> 0 - chs[i].chapter_number])

PreviousChapters(chs, cid) ==
    LET me == chs[cid]
        S  == {i \in DOMAIN chs :
                  /\ chs[i].project_id = me.project_id
                  /\ chs[i].chapter_number < me.chapter_number}
    IN  OrderBy(S, [i \in S |-> chs[i].chapter_number])

\* chapters.py:195-198
IncompleteChaptersNoStrip(chs, prev) ==
    SelectSeq(prev, LAMBDA i : ~Truthy(chs[i].content))

IncompleteChapters(chs, prev) ==
    SelectSeq(prev, LAMBDA i : Incomplete(chs[i].content))

\* chapters.py:170-205  (can_generate, missing_numbers of error_msg, previous_chapters)
check_prerequisites(chs, cid) ==
    IF chs[cid].chapter_number = 1
    THEN [can |-> TRUE, missing |-> <<>>, previous |-> <<>>]
    ELSE LET prev == PreviousChapters(chs, cid)
             inc  == IncompleteChapters(chs, prev)
         IN  IF inc # <<>>
             THEN [can |-> FALSE,
                   missing |-> [k \in 1..Len(inc) |-> chs[inc[k]].chapter_number],
                   previous |-> prev]
             ELSE [can |-> TRUE, missing |-> <<>>, previous |-> prev]

----------------------------------------------------------------------------
(* Values the requests and the Generation Client bring in *)

TitleNames == <<"t1", "t2", "t3", "t4", "t5", "t6", "t7">>
TitleOf(i) == TitleNames[i]

\* stored chapter content: NULL (never written), empty, blank, text
Contents == {NULL, <<>>, <<WS>>, <<"a">>, <<WS, "a">>}

\* chunks of generate_text_stream (ai_service.py:308-311 yields non-empty chunks only)
Tokens == {<<"a">>, <<"b", WS>>}

\* results of generate_text (ai_service.py:249-251 returns "" when choices is empty)
AiTexts == {<<>>, <<"a">>, <<"a", "b">>}

NoRequest ==
    [kind |-> "none", chapter_id |-> 0, status |-> "none",
     missing |-> <<>>, previous |-> <<>>, seen |-> <<>>, ai_called |-> FALSE,
     failed |-> "none", prompt |-> [template |-> "none", previous_content |-> <<>>]]

IdleGen ==
    [pc |-> "idle", chapter_id |-> 0, previous_chapters_data |-> <<>>,
     current_chapter |-> <<>>, project_words |-> 0, previous_content |-> <<>>,
     stream |-> <<>>, full_content |-> <<>>, db_committed |-> FALSE,
     exc |-> "none"]

NoSession == [db_session |-> FALSE, in_transaction |-> FALSE, closed |-> FALSE]

NoObs ==
    [commits |-> 0, commits_ok |-> 0, rollbacks |-> 0, closes |-> 0, closes_ok |-> 0,
     cleanup_raised |-> FALSE, aborted |-> FALSE, cancel_at |-> "none",
     wrote |-> FALSE]

NoLast == [op |-> "none", ok |-> FALSE, arg |-> 0, before |-> <<>>, n |-> 0]

NoCtx == [previous |-> <<>>, blocking |-> <<>>, streaming |-> <<>>, done |-> {}]

EmptyStore == [projects |-> <<>>, chapters |-> <<>>, outlines |-> <<>>, history |-> <<>>]

----------------------------------------------------------------------------
(* Previous-content context: chapters.py:312-335 and 511-531.               *)
(* The text is kept as its parts: sections lists the section headers in    *)
(* the order they are appended, early the lines of the early-summary        *)
(* section (number, title, excerpt; the code ends each with "...") and      *)
(* recent the blocks of the recent-chapters section.                        *)

\* Python s[-n:] and s[:-n] of a list, n > 0
LastN(s, n)    == SubSeq(s, Max(1, Len(s) - n + 1), Len(s))
AllButLastN(s, n) == SubSeq(s, 1, Len(s) - n)

\* the whole content in place of its excerpt
ExcerptUncut(c) == IF Truthy(c) THEN c ELSE <<>>

\* chapters.py:322 / 519   content[:200] if content else ''
Excerpt(c) == IF Truthy(c) THEN Prefix(c, ExcerptLen) ELSE <<>>

\* chapters.py:316-333 / 514-529
BuildPreviousContent(previous) ==
    IF previous = <<>> THEN <<>>
    ELSE LET recent == IF Len(previous) > RecentWindow
                       THEN LastN(previous, RecentWindow) ELSE previous
             early  == IF Len(previous) > RecentWindow
                       THEN AllButLastN(previous, RecentWindow) ELSE <<>>
         IN  [sections |-> (IF early # <<>> THEN <<"early_summary">> ELSE <<>>)
                           \o (IF recent # <<>> THEN <<"recent_content">> ELSE <<>>),
              early  |-> [k \in 1..Len(early) |->
                            [chapter_number |-> early[k].chapter_number,
                             title |-> early[k].title,
                             excerpt |-> Excerpt(early[k].content)]],
              recent |-> [k \in 1..Len(recent) |->
                            [chapter_number |-> recent[k].chapter_number,
                             title |-> recent[k].title,
                             content |-> recent[k].content]]]

----------------------------------------------------------------------------
(* The prompt, prompt_service.py:660-708: the template it is formatted from  *)
(* and the previous-content section it carries. CHAPTER_GENERATION has no    *)
(* place for previous content.                                               *)

get_chapter_generation_prompt ==
    [template |-> "CHAPTER_GENERATION", previous_content |-> <<>>]

get_chapter_generation_with_context_prompt(previous_content) ==
    [template |-> "CHAPTER_GENERATION_WITH_CONTEXT", previous_content |-> previous_content]

\* the continuation template whatever the previous content is
ChapterPromptWithContext(previous_content) ==
    get_chapter_generation_with_context_prompt(previous_content)

\* chapters.py:337-372 / 536-569   if previous_content: ... else: ...
ChapterPrompt(previous_content) ==
    IF previous_content # <<>> /\ previous_content.sections # <<>>
    THEN get_chapter_generation_with_context_prompt(previous_content)
    ELSE get_chapter_generation_prompt

----------------------------------------------------------------------------
(* Blocking generation, chapters.py:248-410, as one request *)

\* the writes of a generation without its GenerationHistory row
PersistGeneratedNoHistory(store, cid, old_word_count, project_words, text) ==
    LET ch == store.chapters[cid]
    IN  [store EXCEPT
            !.chapters = With(store.chapters, cid,
                              [ch EXCEPT !.content = text, !.word_count = StrLen(text),
                                         !.status = "completed"]),
            !.projects = With(store.projects, ch.project_id,
                              project_words - old_word_count + StrLen(text))]

\* chapters.py:381-399  the writes of a successful generation
PersistGenerated(store, cid, old_word_count, project_words, text) ==
    LET ch  == store.chapters[cid]
        new_word_count == StrLen(text)
        ch2 == [ch EXCEPT !.content = text, !.word_count = new_word_count,
                          !.status = "completed"]
        pid == ch.project_id
    IN  [store EXCEPT
            !.chapters = With(store.chapters, cid, ch2),
            !.projects = With(store.projects, pid,
                              project_words - old_word_count + new_word_count),
            !.history  = Append(store.history,
                                HistoryRow(pid, cid,
                                    IF StrLen(text) > HistoryLen
                                    THEN Prefix(text, HistoryLen) ELSE text))]

\* a handler returns: last records it and the store it started from
Done(op, ok, arg) ==
    last' = [op |-> op, ok |-> ok, arg |-> arg, before |-> db, n |-> last.n + 1]

Answer(kind, cid, status, chk, seen, called) ==
    [kind |-> kind, chapter_id |-> cid, status |-> status,
     missing |-> chk.missing, previous |-> chk.previous, seen |-> seen,
     ai_called |-> called, failed |-> "none", prompt |-> NoRequest.prompt]

NoCheck == [can |-> TRUE, missing |-> <<>>, previous |-> <<>>]

generate_chapter_content(cid) ==
    /\ IF cid \notin DOMAIN db.chapters
       THEN \* chapters.py:263-264
            /\ req' = Answer("blocking", cid, "404", NoCheck, db.chapters, FALSE)
            /\ db' = db
       ELSE LET chk == check_prerequisites(db.chapters, cid)
                ch  == db.chapters[cid]
            IN  IF ~chk.can
                THEN \* chapters.py:268-269
                     /\ req' = Answer("blocking", cid, "400", chk, db.chapters, FALSE)
                     /\ db' = db
                ELSE IF ch.project_id \notin DOMAIN db.projects
                THEN \* chapters.py:277-278 raised inside the try, caught at 408-410
                     /\ req' = [Answer("blocking", cid, "500", chk, db.chapters, FALSE)
                                   EXCEPT !.failed = "no_project"]
                     /\ db' = db
                ELSE \* chapters.py:377 generate_text, 401 commit, 402 refresh: each
                     \* may raise, and what raises is caught at 408-410
                     \E outcome \in {"ai_error", "commit_error", "refresh_error", "ok"} :
                     \E text \in AiTexts :
                        /\ db' = IF outcome \in {"ok", "refresh_error"}
                                 THEN PersistGenerated(db, cid, OrZero(ch.word_count),
                                                       db.projects[ch.project_id], text)
                                 ELSE db
                        /\ req' = [Answer("blocking", cid,
                                          IF outcome = "ok" THEN "200" ELSE "500",
                                          chk, db.chapters, TRUE)
                                      EXCEPT !.failed = IF outcome = "ok" THEN "none"
                                                        ELSE outcome,
                                             !.prompt = ChapterPrompt(
                                                 BuildPreviousContent(
                                                     [k \in 1..Len(chk.previous) |->
                                                         db.chapters[chk.previous[k]]]))]
    /\ Done("generate_chapter_content", req'.status = "200", cid)
    /\ UNCHANGED <<gen, sess, events, obs, ctx>>

----------------------------------------------------------------------------
(* Streaming generation, pre-flight part: chapters.py:425-452 *)

\* chapters.py:441-449
PreviousChaptersData(chs, prev) ==
    [k \in 1..Len(prev) |->
        [id |-> prev[k], chapter_number |-> chs[prev[k]].chapter_number,
         title |-> chs[prev[k]].title, content |-> chs[prev[k]].content]]

generate_chapter_content_stream(cid) ==
    /\ gen.pc = "idle"
    /\ IF cid \notin DOMAIN db.chapters
       THEN \* chapters.py:432-433
            /\ req' = Answer("stream", cid, "404", NoCheck, db.chapters, FALSE)
            /\ gen' = gen
       ELSE LET chk == check_prerequisites(db.chapters, cid)
            IN  IF ~chk.can
                THEN \* chapters.py:437-438
                     /\ req' = Answer("stream", cid, "400", chk, db.chapters, FALSE)
                     /\ gen' = gen
                ELSE \* chapters.py:650 the StreamingResponse over event_generator()
                     /\ req' = Answer("stream", cid, "streaming", chk, db.chapters, FALSE)
                     /\ gen' = [gen EXCEPT
                                  !.pc = "created", !.chapter_id = cid,
                                  !.previous_chapters_data =
                                      PreviousChaptersData(db.chapters, chk.previous)]
    /\ UNCHANGED <<db, sess, events, obs, last, ctx>>

----------------------------------------------------------------------------
(* Streaming generation, event_generator: chapters.py:454-648.              *)
(* gen.pc names the await or yield the generator is suspended at.           *)

\* awaits inside the try block: a call that may raise, or be cancelled
AwaitPoints ==
    {"get_db", "fetch_chapter", "fetch_project", "fetch_outline", "fetch_outlines",
     "fetch_characters", "await_token", "sleep", "commit", "refresh"}

\* yields inside the try block: the consumer may close the generator there
YieldPoints ==
    {"yield_error_chapter", "yield_error_project", "yield_start", "yield_content",
     "yield_done"}

Event(type, payload) == [type |-> type, payload |-> payload]

Goto(label) == gen' = [gen EXCEPT !.pc = label]

\* first __anext__ of the response: chapters.py:454-460, up to get_db(request)
StartGenerator ==
    /\ gen.pc = "created"
    /\ Goto("get_db")
    /\ UNCHANGED <<db, req, sess, events, obs, last, ctx>>

\* chapters.py:460-462  the session is handed out and the first query is issued
GetDb ==
    /\ gen.pc = "get_db"
    /\ sess' = [sess EXCEPT !.db_session = TRUE, !.in_transaction = TRUE]
    /\ Goto("fetch_chapter")
    /\ UNCHANGED <<db, req, events, obs, last, ctx>>

\* the missing chapter reported after the start event
FetchChapterStarted ==
    /\ gen.pc = "fetch_chapter"
    /\ IF gen.chapter_id \in DOMAIN db.chapters
       THEN /\ gen' = [gen EXCEPT !.pc = "fetch_project",
                                  !.current_chapter = db.chapters[gen.chapter_id]]
            /\ events' = events
       ELSE /\ Goto("yield_error_chapter")
            /\ events' = events \o <<Event("start", <<>>), Event("error", <<"chapter">>)>>
    /\ UNCHANGED <<db, req, sess, obs, last, ctx>>

\* chapters.py:462-471
FetchChapter ==
    /\ gen.pc = "fetch_chapter"
    /\ IF gen.chapter_id \in DOMAIN db.chapters
       THEN /\ gen' = [gen EXCEPT !.pc = "fetch_project",
                                  !.current_chapter = db.chapters[gen.chapter_id]]
            /\ events' = events
       ELSE /\ Goto("yield_error_chapter")
            /\ events' = Append(events, Event("error", <<"chapter">>))
    /\ UNCHANGED <<db, req, sess, obs, last, ctx>>

\* the missing project noticed only after the Generation Client was called
FetchProjectLate ==
    /\ gen.pc = "fetch_project"
    /\ IF gen.current_chapter.project_id \in DOMAIN db.projects
       THEN /\ gen' = [gen EXCEPT !.pc = "fetch_outline",
                                  !.project_words =
                                      db.projects[gen.current_chapter.project_id]]
            /\ events' = events
            /\ req' = req
       ELSE /\ Goto("yield_error_project")
            /\ events' = Append(events, Event("error", <<"project">>))
            /\ req' = [req EXCEPT !.ai_called = TRUE]
    /\ UNCHANGED <<db, sess, obs, last, ctx>>

\* chapters.py:471-480
FetchProject ==
    /\ gen.pc = "fetch_project"
    /\ IF gen.current_chapter.project_id \in DOMAIN db.projects
       THEN /\ gen' = [gen EXCEPT !.pc = "fetch_outline",
                                  !.project_words =
                                      db.projects[gen.current_chapter.project_id]]
            /\ events' = events
       ELSE /\ Goto("yield_error_project")
            /\ events' = Append(events, Event("error", <<"project">>))
    /\ UNCHANGED <<db, req, sess, obs, last, ctx>>

\* chapters.py:480-502  the outline and the outline list
FetchOutlines ==
    /\ gen.pc \in {"fetch_outline", "fetch_outlines"}
    /\ Goto(IF gen.pc = "fetch_outline" THEN "fetch_outlines" ELSE "fetch_characters")
    /\ UNCHANGED <<db, req, sess, events, obs, last, ctx>>

\* previous_content built from the prerequisite rows as they are now
FetchCharactersRequeried ==
    /\ gen.pc = "fetch_characters"
    /\ gen' = [gen EXCEPT !.pc = "yield_start",
                          !.previous_content =
                              BuildPreviousContent(
                                  PreviousChaptersData(db.chapters,
                                      SelectSeq(req.previous,
                                                LAMBDA i : i \in DOMAIN db.chapters)))]
    /\ events' = Append(events, Event("start", <<>>))
    /\ UNCHANGED <<db, req, sess, obs, last, ctx>>

\* chapters.py:502-534  characters, previous_content, the start event
FetchCharacters ==
    /\ gen.pc = "fetch_characters"
    /\ gen' = [gen EXCEPT !.pc = "yield_start",
                          !.previous_content =
                              BuildPreviousContent(gen.previous_chapters_data)]
    /\ events' = Append(events, Event("start", <<>>))
    /\ UNCHANGED <<db, req, sess, obs, last, ctx>>

\* chapters.py:536-575  the prompt, then the first token is awaited
ResumeStart ==
    /\ gen.pc = "yield_start"
    /\ Goto("await_token")
    /\ req' = [req EXCEPT !.ai_called = TRUE,
                          !.prompt = ChapterPrompt(gen.previous_content)]
    /\ UNCHANGED <<db, sess, events, obs, last, ctx>>

\* a chunk after the first is sent to the client but not accumulated
NextTokenDropped ==
    /\ gen.pc = "await_token"
    /\ Len(gen.stream) < MaxTokens
    /\ \E t \in Tokens :
          /\ gen' = [gen EXCEPT !.pc = "yield_content",
                                !.stream = Append(@, t),
                                !.full_content = IF @ = <<>> THEN t ELSE @]
          /\ events' = Append(events, Event("content", t))
    /\ UNCHANGED <<db, req, sess, obs, last, ctx>>

\* chapters.py:575-577  a chunk arrives
NextToken ==
    /\ gen.pc = "await_token"
    /\ Len(gen.stream) < MaxTokens
    /\ \E t \in Tokens :
          /\ gen' = [gen EXCEPT !.pc = "yield_content",
                                !.stream = Append(@, t),
                                !.full_content = @ \o t]
          /\ events' = Append(events, Event("content", t))
    /\ UNCHANGED <<db, req, sess, obs, last, ctx>>

\* chapters.py:577-578
ResumeContent ==
    /\ gen.pc = "yield_content"
    /\ Goto("sleep")
    /\ UNCHANGED <<db, req, sess, events, obs, last, ctx>>

\* chapters.py:578, 575
Sleep ==
    /\ gen.pc = "sleep"
    /\ Goto("await_token")
    /\ UNCHANGED <<db, req, sess, events, obs, last, ctx>>

\* the done event yielded before the commit
StreamEndDoneFirst ==
    /\ gen.pc = "await_token"
    /\ Goto("commit")
    /\ obs' = [obs EXCEPT !.commits = @ + 1]
    /\ events' = Append(events, Event("done", <<StrLen(gen.full_content)>>))
    /\ UNCHANGED <<db, req, sess, last, ctx>>

\* the precondition check repeated before the writes, refusing with an error
StreamEndRechecked ==
    /\ gen.pc = "await_token"
    /\ IF /\ gen.chapter_id \in DOMAIN db.chapters
          /\ ~check_prerequisites(db.chapters, gen.chapter_id).can
       THEN /\ Goto("yield_error")
            /\ events' = Append(events, Event("error", <<"precondition">>))
            /\ obs' = obs
       ELSE /\ Goto("commit")
            /\ events' = events
            /\ obs' = [obs EXCEPT !.commits = @ + 1]
    /\ UNCHANGED <<db, req, sess, last, ctx>>

\* chapters.py:580-600  the stream is exhausted: writes in the session, commit issued
StreamEnd ==
    /\ gen.pc = "await_token"
    /\ Goto("commit")
    /\ obs' = [obs EXCEPT !.commits = @ + 1]
    /\ UNCHANGED <<db, req, sess, events, last, ctx>>

\* the rows the UPDATEs of the flush address are still there
RowsPresent ==
    /\ gen.chapter_id \in DOMAIN db.chapters
    /\ gen.current_chapter.project_id \in DOMAIN db.projects

\* a commit whose project total does not take the chapter's old words off
CommitKeepsOldWords ==
    /\ gen.pc = "commit"
    /\ RowsPresent
    /\ db' = PersistGenerated(db, gen.chapter_id, 0,
                              gen.project_words, gen.full_content)
    /\ gen' = [gen EXCEPT !.pc = "refresh", !.db_committed = TRUE]
    /\ obs' = [obs EXCEPT !.commits_ok = @ + 1, !.wrote = TRUE]
    /\ UNCHANGED <<req, sess, events, last, ctx>>

\* chapters.py:600-602  the commit succeeds; refresh is issued
Commit ==
    /\ gen.pc = "commit"
    /\ RowsPresent
    /\ db' = PersistGenerated(db, gen.chapter_id,
                              OrZero(gen.current_chapter.word_count),
                              gen.project_words, gen.full_content)
    /\ gen' = [gen EXCEPT !.pc = "refresh", !.db_committed = TRUE]
    /\ obs' = [obs EXCEPT !.commits_ok = @ + 1, !.wrote = TRUE]
    /\ UNCHANGED <<req, sess, events, last, ctx>>

\* chapters.py:602-607
Refresh ==
    /\ gen.pc = "refresh"
    /\ gen.chapter_id \in DOMAIN db.chapters
    /\ Goto("yield_done")
    /\ events' = Append(events, Event("done", <<StrLen(gen.full_content)>>))
    /\ UNCHANGED <<db, req, sess, obs, last, ctx>>

\* chapters.py:468, 477, 609  return or break: on to the finally block
LeaveTry ==
    /\ gen.pc \in {"yield_error_chapter", "yield_error_project", "yield_done"}
    /\ Goto("finally")
    /\ UNCHANGED <<db, req, sess, events, obs, last, ctx>>

\* an awaited call raises an Exception: chapters.py:621
Raise ==
    /\ gen.pc \in AwaitPoints \ {"sleep"}
    /\ gen' = [gen EXCEPT !.pc = "except_exception", !.exc = gen.pc]
    /\ obs' = [obs EXCEPT !.aborted = TRUE]
    /\ UNCHANGED <<db, req, sess, events, last, ctx>>

\* the task is cancelled while the generator awaits: CancelledError is caught by
\* neither except clause (chapters.py:611, 621) and reaches the finally block
Cancel ==
    /\ gen.pc \in AwaitPoints
    /\ obs.cancel_at = "none"
    /\ Goto("finally")
    /\ obs' = [obs EXCEPT !.aborted = TRUE, !.cancel_at = gen.pc]
    /\ UNCHANGED <<db, req, sess, events, last, ctx>>

\* the consumer closes the generator suspended at a yield of the try block:
\* GeneratorExit, chapters.py:611
Disconnect ==
    /\ gen.pc \in YieldPoints
    /\ obs.cancel_at = "none"
    /\ Goto("except_generator_exit")
    /\ obs' = [obs EXCEPT !.aborted = TRUE, !.cancel_at = gen.pc]
    /\ UNCHANGED <<db, req, sess, events, last, ctx>>

\* a handler that commits what is pending instead of rolling it back
HandlerCommits(ok) ==
    IF sess.db_session /\ ~gen.db_committed /\ sess.in_transaction
    THEN /\ sess' = [sess EXCEPT !.in_transaction = ~ok]
         /\ obs' = [obs EXCEPT !.commits = @ + 1]
    ELSE /\ sess' = sess
         /\ obs' = obs

\* the rollback of the handlers without the test of db_committed
HandlerRollbackUnguarded(ok) ==
    IF sess.db_session /\ sess.in_transaction
    THEN /\ sess' = [sess EXCEPT !.in_transaction = ~ok]
         /\ obs' = [obs EXCEPT !.rollbacks = @ + 1]
    ELSE /\ sess' = sess
         /\ obs' = obs

\* chapters.py:614-620 and 623-629  the guarded rollback of both handlers
HandlerRollback(ok) ==
    IF sess.db_session /\ ~gen.db_committed /\ sess.in_transaction
    THEN /\ sess' = [sess EXCEPT !.in_transaction = ~ok]
         /\ obs' = [obs EXCEPT !.rollbacks = @ + 1]
    ELSE /\ sess' = sess
         /\ obs' = obs

\* chapters.py:611-620
ExceptGeneratorExit ==
    /\ gen.pc = "except_generator_exit"
    /\ \E ok \in BOOLEAN : HandlerRollback(ok)
    /\ Goto("finally")
    /\ UNCHANGED <<db, req, events, last, ctx>>

\* the handler that rolls back and emits nothing
ExceptExceptionSilent ==
    /\ gen.pc = "except_exception"
    /\ \E ok \in BOOLEAN : HandlerRollback(ok)
    /\ Goto("yield_error")
    /\ UNCHANGED <<db, req, events, last, ctx>>

\* chapters.py:621-630
ExceptException ==
    /\ gen.pc = "except_exception"
    /\ \E ok \in BOOLEAN : HandlerRollback(ok)
    /\ Goto("yield_error")
    /\ events' = Append(events, Event("error", <<gen.exc>>))
    /\ UNCHANGED <<db, req, last, ctx>>

\* chapters.py:630-631  resumed after the error event, or closed at it
AfterErrorEvent ==
    /\ gen.pc = "yield_error"
    /\ Goto("finally")
    /\ \/ obs' = obs
       \/ /\ obs.cancel_at = "none"
          /\ obs' = [obs EXCEPT !.cancel_at = gen.pc]
    /\ UNCHANGED <<db, req, sess, events, last, ctx>>

\* chapters.py:633-648 with a session: rollback_ok, close_ok, force_ok tell
\* whether the rollback at 637, the close at 640 and the close at 646 return or
\* raise; need is the guard of line 636
Cleanup(need, rollback_ok, close_ok, force_ok) ==
    LET first  == ~need \/ rollback_ok           \* line 640 is reached
        raised == ~(first /\ close_ok)           \* line 642 is reached
        closed == IF raised THEN force_ok ELSE TRUE
    IN  /\ sess' = [sess EXCEPT
                      !.in_transaction = IF closed THEN FALSE
                                         ELSE IF need THEN ~rollback_ok ELSE @,
                      !.closed = closed]
        /\ obs' = [obs EXCEPT
                      !.rollbacks = @ + (IF need THEN 1 ELSE 0),
                      !.closes = @ + (IF first /\ raised THEN 2 ELSE 1),
                      !.closes_ok = @ + (IF closed THEN 1 ELSE 0),
                      !.cleanup_raised = raised]

\* the finally block closing the session only on the uncommitted path
FinallyCloseOnlyUncommitted ==
    /\ gen.pc = "finally"
    /\ Goto("closed")
    /\ IF ~sess.db_session \/ gen.db_committed
       THEN sess' = sess /\ obs' = obs
       ELSE \E rollback_ok, close_ok, force_ok \in BOOLEAN :
               Cleanup(~gen.db_committed /\ sess.in_transaction,
                       rollback_ok, close_ok, force_ok)
    /\ UNCHANGED <<db, req, events, last, ctx>>

\* the finally block without its rollback
FinallyNoRollback ==
    /\ gen.pc = "finally"
    /\ Goto("closed")
    /\ IF ~sess.db_session
       THEN sess' = sess /\ obs' = obs
       ELSE \E rollback_ok, close_ok, force_ok \in BOOLEAN :
               Cleanup(FALSE, rollback_ok, close_ok, force_ok)
    /\ UNCHANGED <<db, req, events, last, ctx>>

\* the finally block committing what it finds open instead of rolling it back
FinallyCommits ==
    /\ gen.pc = "finally"
    /\ Goto("closed")
    /\ IF ~sess.db_session
       THEN sess' = sess /\ obs' = obs
       ELSE /\ sess' = [sess EXCEPT !.in_transaction = FALSE, !.closed = TRUE]
            /\ obs' = [obs EXCEPT
                          !.commits = @ + (IF ~gen.db_committed /\ sess.in_transaction
                                           THEN 1 ELSE 0),
                          !.closes = @ + 1, !.closes_ok = @ + 1]
    /\ UNCHANGED <<db, req, events, last, ctx>>

\* chapters.py:631-648
Finally ==
    /\ gen.pc = "finally"
    /\ Goto("closed")
    /\ IF ~sess.db_session
       THEN sess' = sess /\ obs' = obs
       ELSE \E rollback_ok, close_ok, force_ok \in BOOLEAN :
               Cleanup(~gen.db_committed /\ sess.in_transaction,
                       rollback_ok, close_ok, force_ok)
    /\ UNCHANGED <<db, req, events, last, ctx>>

Generator ==
    \/ StartGenerator
    \/ GetDb
    \/ FetchChapter
    \/ FetchProject
    \/ FetchOutlines
    \/ FetchCharacters
    \/ ResumeStart
    \/ NextToken
    \/ ResumeContent
    \/ Sleep
    \/ StreamEnd
    \/ Commit
    \/ Refresh
    \/ LeaveTry
    \/ Raise
    \/ Cancel
    \/ Disconnect
    \/ ExceptGeneratorExit
    \/ ExceptException
    \/ AfterErrorEvent
    \/ Finally

----------------------------------------------------------------------------
(* Store handlers of other requests. Each runs in its own session and is    *)
(* one transaction.                                                         *)

\* the primary key a new row gets (a fresh uuid in the code)
FreshId(rows, ids) == CHOOSE i \in ids \ DOMAIN rows : \A j \in ids \ DOMAIN rows : i <= j

\* chapters.py:30-58
create_chapter(pid, number, content) ==
    /\ ChapterIds \ DOMAIN db.chapters # {}
    /\ IF pid \notin DOMAIN db.projects \/ content = NULL
       THEN \* 404 at line 42; len(None) raises at line 45
            /\ db' = db
            /\ Done("create_chapter", FALSE, 0)
       ELSE LET id == FreshId(db.chapters, ChapterIds)
                word_count == StrLen(content)
            IN  /\ db' = [db EXCEPT
                            !.chapters = With(@, id,
                                ChapterRow(pid, number, TitleOf(id), content,
                                           word_count, "draft")),
                            !.projects = With(@, pid, db.projects[pid] + word_count)]
                /\ Done("create_chapter", TRUE, id)
    /\ UNCHANGED <<req, gen, sess, events, obs, ctx>>

\* chapters.py:101-139  an update that sets the content field
update_chapter(cid, content) ==
    /\ IF cid \notin DOMAIN db.chapters
       THEN /\ db' = db
            /\ Done("update_chapter", FALSE, cid)
       ELSE LET ch  == db.chapters[cid]
                old_word_count == OrZero(ch.word_count)
                new_word_count == StrLen(content)
                pid == ch.project_id
            IN  /\ db' = IF Truthy(content)
                         THEN [db EXCEPT
                                 !.chapters = With(@, cid,
                                     [ch EXCEPT !.content = content,
                                                !.word_count = new_word_count]),
                                 !.projects =
                                     IF pid \in DOMAIN db.projects
                                     THEN With(@, pid, db.projects[pid]
                                                 - old_word_count + new_word_count)
                                     ELSE @]
                         ELSE [db EXCEPT
                                 !.chapters = With(@, cid, [ch EXCEPT !.content = content])]
                /\ Done("update_chapter", TRUE, cid)
    /\ UNCHANGED <<req, gen, sess, events, obs, ctx>>

\* chapters.py:142-167
delete_chapter(cid) ==
    /\ IF cid \notin DOMAIN db.chapters
       THEN /\ db' = db
            /\ Done("delete_chapter", FALSE, cid)
       ELSE LET ch  == db.chapters[cid]
                pid == ch.project_id
            IN  /\ db' = [db EXCEPT
                            !.chapters = Without(@, cid),
                            !.projects =
                                IF pid \in DOMAIN db.projects
                                THEN With(@, pid, Max(0, db.projects[pid] - ch.word_count))
                                ELSE @]
                /\ Done("delete_chapter", TRUE, cid)
    /\ UNCHANGED <<req, gen, sess, events, obs, ctx>>

\* projects.py:134-200
delete_project(pid) ==
    /\ IF pid \notin DOMAIN db.projects
       THEN /\ db' = db
            /\ Done("delete_project", FALSE, 0)
       ELSE /\ db' = [projects |-> Without(db.projects, pid),
                      chapters |-> [i \in DOMAIN db.chapters \ ChaptersOf(db.chapters, pid)
                                      |-> db.chapters[i]],
                      outlines |-> [i \in {j \in DOMAIN db.outlines :
                                              db.outlines[j].project_id # pid}
                                      |-> db.outlines[i]],
                      history  |-> SelectSeq(db.history, LAMBDA h : h.project_id # pid)]
            /\ Done("delete_project", TRUE, 0)
    /\ UNCHANGED <<req, gen, sess, events, obs, ctx>>

\* outlines.py:31-61
create_outline(pid, order_index, content) ==
    /\ OutlineIds \ DOMAIN db.outlines # {}
    /\ ChapterIds \ DOMAIN db.chapters # {}
    /\ IF pid \notin DOMAIN db.projects
       THEN /\ db' = db
            /\ Done("create_outline", FALSE, 0)
       ELSE LET oid == FreshId(db.outlines, OutlineIds)
                cid == FreshId(db.chapters, ChapterIds)
            IN  /\ db' = [db EXCEPT
                            !.outlines = With(@, oid,
                                OutlineRow(pid, order_index, TitleOf(oid), content)),
                            !.chapters = With(@, cid,
                                ChapterRow(pid, order_index, TitleOf(oid), NULL, 0,
                                           "draft"))]
                /\ Done("create_outline", TRUE, oid)
    /\ UNCHANGED <<req, gen, sess, events, obs, ctx>>

\* all orders in which a query without ORDER BY may return the rows S
Orders(S) ==
    {s \in [1..Cardinality(S) -> S] : \A j, k \in 1..Cardinality(S) : j # k => s[j] # s[k]}

\* the loop renumbering the outlines only
RenumberLoopNoChapters(order, outs, chs, base, autoflush) ==
    [ok |-> TRUE,
     outlines |-> [o \in DOMAIN outs |->
                     IF \E k \in 1..Len(order) : order[k] = o
                     THEN [outs[o] EXCEPT !.order_index = @ - 1] ELSE outs[o]],
     chapters |-> chs]

\* outlines.py:231-244  the loop over subsequent_outlines. The chapter query of
\* line 236 sees the rows as flushed so far when the session autoflushes, and as
\* they were after line 220 when it does not; scalar_one_or_none (line 242)
\* raises when it finds two rows.
RECURSIVE RenumberLoop(_, _, _, _, _)
RenumberLoop(order, outs, chs, base, autoflush) ==
    IF order = <<>> THEN [ok |-> TRUE, outlines |-> outs, chapters |-> chs]
    ELSE LET o == Head(order)
             old_order == outs[o].order_index
             view == IF autoflush THEN chs ELSE base
             hit  == {c \in DOMAIN view : /\ view[c].project_id = outs[o].project_id
                                          /\ view[c].chapter_number = old_order}
             outs2 == [outs EXCEPT ![o].order_index = old_order - 1]
         IN  IF Cardinality(hit) > 1
             THEN [ok |-> FALSE, outlines |-> outs, chapters |-> chs]
             ELSE RenumberLoop(Tail(order), outs2,
                               [c \in DOMAIN chs |->
                                   IF c \in hit
                                   THEN [chs[c] EXCEPT !.chapter_number = old_order - 1]
                                   ELSE chs[c]],
                               base, autoflush)

\* outlines.py:194-248
delete_outline(oid) ==
    /\ IF oid \notin DOMAIN db.outlines
       THEN /\ db' = db
            /\ Done("delete_outline", FALSE, oid)
       ELSE LET project_id == db.outlines[oid].project_id
                deleted_order == db.outlines[oid].order_index
                chs  == [c \in {d \in DOMAIN db.chapters :
                                   ~(/\ db.chapters[d].project_id = project_id
                                     /\ db.chapters[d].chapter_number = deleted_order)}
                           |-> db.chapters[c]]
                outs == Without(db.outlines, oid)
                subsequent == {o \in DOMAIN outs :
                                  /\ outs[o].project_id = project_id
                                  /\ outs[o].order_index > deleted_order}
            IN  \E order \in Orders(subsequent), autoflush \in BOOLEAN :
                    LET r == RenumberLoop(order, outs, chs, chs, autoflush)
                    IN  /\ db' = IF r.ok
                                 THEN [db EXCEPT !.outlines = r.outlines,
                                                 !.chapters = r.chapters]
                                 ELSE db
                        /\ Done("delete_outline", r.ok, oid)
    /\ UNCHANGED <<req, gen, sess, events, obs, ctx>>

----------------------------------------------------------------------------
(* Stores a project can be in *)

\* word totals of the projects, recomputed from the chapters
TotalsOf(chs) == [p \in ProjectIds |-> SumWords(chs, ChaptersOf(chs, p))]

WordCountOf(c) == IF c = NULL THEN 0 ELSE StrLen(c)

\* rows[i] is "none" or <<project, content>>; rev: the rows were inserted in
\* descending position order
StoreOf(rows, rev) ==
    LET ids == {i \in ChapterIds : rows[i] # <<>>}
        chs == [i \in ids |->
                  ChapterRow(rows[i][1],
                             IF rev THEN MaxChapters + 1 - i ELSE i,
                             TitleOf(i), rows[i][2], WordCountOf(rows[i][2]),
                             IF Truthy(rows[i][2]) THEN "completed" ELSE "draft")]
    IN  [projects |-> TotalsOf(chs), chapters |-> chs,
         outlines |-> <<>>, history |-> <<>>]

RowChoices == {<<>>} \cup (ProjectIds \X Contents)

InitCheck ==
    /\ \E rows \in [ChapterIds -> RowChoices], rev \in BOOLEAN : db = StoreOf(rows, rev)
    /\ req = NoRequest
    /\ gen = IdleGen
    /\ sess = NoSession
    /\ events = <<>>
    /\ obs = NoObs
    /\ last = NoLast
    /\ ctx = NoCtx

NextCheck ==
    \/ \E cid \in ChapterIds : req.kind = "none" /\ generate_chapter_content(cid)
    \/ \E cid \in ChapterIds : req.kind = "none" /\ generate_chapter_content_stream(cid)

SpecCheck == InitCheck /\ [][NextCheck]_vars

----------------------------------------------------------------------------
(* Claims about the Precondition Checker *)

\* null, empty or made of whitespace only
Blank(c) == c = NULL \/ \A k \in 1..Len(c) : c[k] = WS

\* chapters of the target's project at a lower position, in the store the
\* request's check read
Prerequisites(chs, cid) ==
    {i \in DOMAIN chs : /\ chs[i].project_id = chs[cid].project_id
                        /\ chs[i].chapter_number < chs[cid].chapter_number}

Answered == req.kind # "none" /\ req.chapter_id \in DOMAIN req.seen

\* C1: a generation request (blocking or streaming) for position n > 1 is
\* rejected with the precondition violation (400) whenever a chapter of the
\* same project at a lower position has null, empty or whitespace-only
\* content, and a request for position 1 is never rejected by this check.
C1_Sequencing ==
    Answered =>
        LET chs == req.seen
            me  == chs[req.chapter_id]
        IN  /\ (/\ me.chapter_number > 1
                /\ \E i \in Prerequisites(chs, req.chapter_id) : Blank(chs[i].content))
               => req.status = "400"
            /\ me.chapter_number = 1 => req.status # "400"

C1_Witness ==
    /\ Answered
    /\ req.kind = "stream"
    /\ req.status = "400"
    /\ \E i \in Prerequisites(req.seen, req.chapter_id) : req.seen[i].content = <<WS>>
    /\ \E i \in Prerequisites(req.seen, req.chapter_id) : ~Blank(req.seen[i].content)

\* C8: the reason of an ineligible request names exactly the positions below
\* the target whose chapters are blank, in ascending order, and the check
\* still returns all prerequisite chapters ordered by position.
C8_BlockedContinuation ==
    (Answered /\ req.status = "400") =>
        LET chs == req.seen
            pre == Prerequisites(chs, req.chapter_id)
        IN  /\ {req.missing[k] : k \in 1..Len(req.missing)}
                 = {chs[i].chapter_number : i \in {j \in pre : Blank(chs[j].content)}}
            /\ \A j, k \in 1..Len(req.missing) : j < k => req.missing[j] < req.missing[k]
            /\ {req.previous[k] : k \in 1..Len(req.previous)} = pre
            /\ Len(req.previous) = Cardinality(pre)
            /\ \A j, k \in 1..Len(req.previous) :
                  j < k => chs[req.previous[j]].chapter_number
                             < chs[req.previous[k]].chapter_number

C8_Witness ==
    /\ Answered
    /\ req.status = "400"
    /\ Len(req.missing) = 2
    /\ Len(req.previous) = 2
    /\ req.previous[1] > req.previous[2]

----------------------------------------------------------------------------
(* One streaming request, with requests of other clients in between *)

\* a project p1 with chapters at positions 1..MaxChapters, of which the first
\* written are written, as sequential writing leaves them
WrittenUpTo(written) ==
    [i \in ChapterIds |-> <<"p1", IF i <= written THEN <<"a">> ELSE NULL>>]

Init ==
    /\ \E written \in 0..MaxChapters : db = StoreOf(WrittenUpTo(written), FALSE)
    /\ req = NoRequest
    /\ gen = IdleGen
    /\ sess = NoSession
    /\ events = <<>>
    /\ obs = NoObs
    /\ last = NoLast
    /\ ctx = NoCtx

StreamRequest == \E cid \in ChapterIds : generate_chapter_content_stream(cid)

\* The generator reads the store at fetch_chapter and fetch_project, writes it at
\* commit and reads it again at refresh: a commit of another request at any other
\* point of the run has the effect of one just before the next of these.
InterleavePoints == {"fetch_chapter", "fetch_project", "commit", "refresh"}

\* another client's request commits while the stream is open
OtherRequest ==
    /\ gen.pc \in InterleavePoints
    /\ last.n < MaxOther
    /\ \/ \E cid \in ChapterIds : delete_chapter(cid)
       \/ \E cid \in ChapterIds : update_chapter(cid, <<>>)
       \/ delete_project("p1")

Next ==
    \/ StreamRequest
    \/ Generator
    \/ OtherRequest

Spec == Init /\ [][Next]_vars

----------------------------------------------------------------------------
(* Claims about the streaming workflow *)

Emitted(type) == \E k \in 1..Len(events) : events[k].type = type

Exited == gen.pc = "closed"

\* C3: in one streaming request, however it ends, the generator's session
\* performs zero or one commit, never more.
C3_AtMostOneCommit == obs.commits <= 1

C3_Witness ==
    /\ Exited
    /\ gen.exc = "commit"
    /\ obs.commits = 1
    /\ obs.commits_ok = 0

MidStreamPoints == {"yield_content", "sleep", "await_token", "commit", "refresh"}

DisconnectedMidStream ==
    /\ Exited
    /\ obs.cancel_at \in MidStreamPoints
    /\ Emitted("content")
    /\ ~Emitted("done")

\* what the store holds of the request's project when nothing was written
\* since the pre-flight check
StoreAsBefore ==
    /\ ~obs.wrote
    /\ last.n = 0 => /\ db.chapters = req.seen
                     /\ db.projects = TotalsOf(req.seen)
                     /\ db.history = <<>>

\* C5 as stated: a disconnect after a content event and before the done event
\* rolls the transaction back and leaves chapter, project total and history as
\* they were before the request.
C5_DisconnectRollsBack ==
    DisconnectedMidStream => (obs.rollbacks >= 1 /\ StoreAsBefore)

\* C5, amended: a disconnect after a content event, before the done event and
\* before the commit has succeeded issues a rollback, and chapter, project
\* total and history stay as they were before the request.
C5_DisconnectBeforeCommit ==
    (DisconnectedMidStream /\ ~gen.db_committed) =>
        (obs.rollbacks >= 1 /\ obs.commits_ok = 0 /\ StoreAsBefore)

C5_Witness ==
    /\ DisconnectedMidStream
    /\ obs.cancel_at = "await_token"
    /\ Len(gen.stream) = 1
    /\ last.n = 0
    /\ obs.rollbacks = 1
    /\ ~sess.in_transaction

\* C9: a done event is emitted only after the one commit of the request has
\* succeeded, and never in a run that rolled back or failed to commit.
C9_DoneAfterCommit ==
    Emitted("done") =>
        /\ gen.db_committed
        /\ obs.commits = 1
        /\ obs.commits_ok = 1
        /\ obs.rollbacks = 0

C9_Witness ==
    /\ Exited
    /\ Emitted("done")
    /\ obs.cancel_at = "yield_done"
    /\ obs.commits_ok = 1

\* C10: once the generator has been cancelled or has caught an exception, no
\* commit is issued on its session in the rest of the run.
C10_NoCommitAfterAbort == [][obs.aborted => obs'.commits = obs.commits]_vars

C10_Witness ==
    /\ Exited
    /\ obs.aborted
    /\ obs.cancel_at = "yield_content"
    /\ obs.commits = 0
    /\ obs.rollbacks = 1

\* an awaited call raised while db_committed was False and the handler of
\* line 621 has run
HandledBeforeCommit ==
    /\ gen.exc # "none"
    /\ ~gen.db_committed
    /\ gen.pc \in {"yield_error", "finally", "closed"}

ErrorEvents == {k \in 1..Len(events) : events[k].type = "error"}

\* C11: an exception raised in the generator while db_committed is False
\* (prompt building, token stream, persisting, commit) has a rollback issued on
\* the session's transaction, is followed by exactly one error event, the last
\* event of the stream, carrying the exception, and by no successful commit:
\* chapter, project total and history stay as before the request.
C11_ExceptionRollsBack ==
    HandledBeforeCommit =>
        /\ ErrorEvents = {Len(events)}
        /\ events[Len(events)].payload = <<gen.exc>>
        /\ sess.db_session => obs.rollbacks >= 1
        /\ obs.commits_ok = 0
        /\ StoreAsBefore

\* the commit raised after one chunk had been streamed
C11_Witness ==
    /\ Exited
    /\ gen.exc = "commit"
    /\ ~gen.db_committed
    /\ Emitted("content")
    /\ events[Len(events)].type = "error"
    /\ obs.rollbacks = 1
    /\ last.n = 0

----------------------------------------------------------------------------
(* The previous-content builder on its own: both copies of it (blocking,    *)
(* chapters.py:312-335; streaming, chapters.py:511-531) applied to a list   *)
(* of completed prerequisite chapters in position order.                    *)

Digits == <<"0", "1", "2", "3", "4", "5", "6", "7", "8", "9">>

\* a text of n characters, no two neighbours alike
Text(n) == [i \in 1..n |-> Digits[(i % 10) + 1]]

\* contents around the excerpt length
CtxContents == {Text(1), Text(ExcerptLen - 1), Text(ExcerptLen), Text(ExcerptLen + 1)}

InitCtx ==
    /\ \E k \in 0..MaxPrev : \E cs \in [1..k -> CtxContents] :
          ctx = [NoCtx EXCEPT !.previous =
                    [i \in 1..k |-> ChapterRow("p1", i, TitleOf(i), cs[i],
                                               StrLen(cs[i]), "completed")]]
    /\ db = EmptyStore
    /\ req = NoRequest
    /\ gen = IdleGen
    /\ sess = NoSession
    /\ events = <<>>
    /\ obs = NoObs
    /\ last = NoLast

\* chapters.py:312-335 on the rows check_prerequisites returned
BuildBlocking ==
    /\ "blocking" \notin ctx.done
    /\ ctx' = [ctx EXCEPT !.blocking = BuildPreviousContent(ctx.previous),
                          !.done = @ \cup {"blocking"}]
    /\ UNCHANGED <<db, req, gen, sess, events, obs, last>>

\* chapters.py:511-531 on the dictionaries saved at lines 441-449
BuildStreaming ==
    /\ "streaming" \notin ctx.done
    /\ LET chs  == [i \in 1..Len(ctx.previous) |-> ctx.previous[i]]
           data == PreviousChaptersData(chs, [i \in 1..Len(ctx.previous) |-> i])
       IN  ctx' = [ctx EXCEPT !.streaming = BuildPreviousContent(data),
                              !.done = @ \cup {"streaming"}]
    /\ UNCHANGED <<db, req, gen, sess, events, obs, last>>

NextCtx == BuildBlocking \/ BuildStreaming

SpecCtx == InitCtx /\ [][NextCtx]_vars

----------------------------------------------------------------------------
(* Claims about the previous-content builder *)

\* e is the text c cut to at most n characters
CutTo(e, c, n) ==
    /\ Len(e) = (IF Len(c) < n THEN Len(c) ELSE n)
    /\ \A i \in 1..Len(e) : e[i] = c[i]

\* out is the windowed context of the k chapters of previous
Windowed(previous, out) ==
    LET k == Len(previous)
        e == IF k > 3 THEN k - 3 ELSE 0
    IN  /\ k >= 1
        /\ Len(out.recent) = k - e
        /\ \A j \in 1..(k - e) :
              /\ out.recent[j].content = previous[e + j].content
              /\ out.recent[j].chapter_number = previous[e + j].chapter_number
              /\ out.recent[j].title = previous[e + j].title
        /\ Len(out.early) = e
        /\ \A j \in 1..e :
              /\ CutTo(out.early[j].excerpt, previous[j].content, 200)
              /\ out.early[j].chapter_number = previous[j].chapter_number
              /\ out.early[j].title = previous[j].title
        /\ out.sections = IF k > 3 THEN <<"early_summary", "recent_content">>
                          ELSE <<"recent_content">>

\* C6 (context windowing): for k prerequisite chapters in position order, with
\* k > 3 the context holds the full content of exactly the last 3 chapters and,
\* for each of the first k-3, its number, title and the first 200 characters of
\* its content; with 1 <= k <= 3 it holds the full content of all k and has no
\* early-summary section. Both the blocking and the streaming builder.
C6_ContextWindowing ==
    /\ ("blocking" \in ctx.done /\ ctx.previous # <<>>)
          => Windowed(ctx.previous, ctx.blocking)
    /\ ("streaming" \in ctx.done /\ ctx.previous # <<>>)
          => Windowed(ctx.previous, ctx.streaming)

\* both builders have run on five chapters, the first of them longer than the
\* excerpt and the second shorter
C6_Witness ==
    /\ ctx.done = {"blocking", "streaming"}
    /\ Len(ctx.previous) = 5
    /\ Len(ctx.previous[1].content) > 200
    /\ Len(ctx.previous[2].content) < 200
    /\ Len(ctx.blocking.early) = 2

----------------------------------------------------------------------------
(* The store handlers and blocking generation one after another, each       *)
(* request complete before the next, on a project p1 whose outlines and     *)
(* chapters occupy positions 1..n and a project p2 without rows.            *)

StoreContents == {NULL, <<"a", "b">>}

\* rev: the rows were inserted in descending position order
DenseStore(n, contents, rev) ==
    LET pos(i) == IF rev THEN n + 1 - i ELSE i
        chs  == [i \in 1..n |->
                   ChapterRow("p1", pos(i), TitleOf(i), contents[i],
                              WordCountOf(contents[i]),
                              IF Truthy(contents[i]) THEN "completed" ELSE "draft")]
        outs == [i \in 1..n |-> OutlineRow("p1", pos(i), TitleOf(i), <<"o">>)]
    IN  [projects |-> TotalsOf(chs), chapters |-> chs, outlines |-> outs,
         history |-> <<>>]

InitStore ==
    /\ \E n \in 0..MaxChapters : \E contents \in [1..n -> StoreContents] :
       \E rev \in BOOLEAN :
          db = DenseStore(n, contents, rev)
    /\ req = NoRequest
    /\ gen = IdleGen
    /\ sess = NoSession
    /\ events = <<>>
    /\ obs = NoObs
    /\ last = NoLast
    /\ ctx = NoCtx

\* a further request is made
More == last.n < MaxOps

NextStore ==
    \/ \E pid \in ProjectIds, number \in Positions :
          More /\ create_chapter(pid, number, <<"a">>)
    \/ \E cid \in ChapterIds, content \in {<<>>, <<"b">>} :
          More /\ update_chapter(cid, content)
    \/ \E cid \in ChapterIds : More /\ delete_chapter(cid)
    \/ \E pid \in ProjectIds, order_index \in Positions :
          More /\ create_outline(pid, order_index, <<"o">>)
    \/ \E oid \in OutlineIds : More /\ delete_outline(oid)
    \/ \E cid \in ChapterIds : More /\ generate_chapter_content(cid)

SpecStore == InitStore /\ [][NextStore]_vars

----------------------------------------------------------------------------
(* Claims about the store handlers *)

\* C2 (word-count consistency): after any sequence of successful operations
\* that create, update, generate or delete chapter content, the chapter
\* removed together with its outline included, current_words of every project
\* equals the sum of word_count over the chapters now in that project.
C2_WordCountConsistency ==
    \A p \in DOMAIN db.projects :
        db.projects[p] = SumWords(db.chapters, ChaptersOf(db.chapters, p))

\* the outlines and the chapters of project p in store occupy positions 1..N
Dense(store, p) ==
    LET os == {o \in DOMAIN store.outlines : store.outlines[o].project_id = p}
        cs == ChaptersOf(store.chapters, p)
        N  == Cardinality(os)
    IN  /\ Cardinality(cs) = N
        /\ \A k \in 1..N :
              /\ \E o \in os : store.outlines[o].order_index = k
              /\ \E c \in cs : store.chapters[c].chapter_number = k

\* position p after the row at position k of its project has gone
Renumbered(p, k) == IF p > k THEN p - 1 ELSE p

AllWritten(b, d, cid) ==
    LET t   == d.chapters[cid].content
        pid == b.chapters[cid].project_id
    IN  /\ t # NULL
        /\ d.chapters = [b.chapters EXCEPT ![cid] =
                            [@ EXCEPT !.content = t, !.word_count = Len(t),
                                      !.status = "completed"]]
        /\ d.projects = [b.projects EXCEPT ![pid] =
                            @ - b.chapters[cid].word_count + Len(t)]
        /\ d.history = Append(b.history,
                              [project_id |-> pid, chapter_id |-> cid,
                               generated_content |-> t])
        /\ d.outlines = b.outlines

\* C12 (blocking generation is all-or-nothing): when the generation call or
\* the commit raises, the store is as it was before the request; a request
\* answered 200 has committed chapter content, word count, status, project
\* total and history row; no request leaves only some of these writes.
C12_AllOrNothing ==
    last.op = "generate_chapter_content" =>
        /\ req.failed \in {"ai_error", "commit_error"} => db = last.before
        /\ req.status = "200" => AllWritten(last.before, db, last.arg)
        /\ db = last.before \/ AllWritten(last.before, db, last.arg)

\* the commit of a regeneration raised after the Generation Client had answered
C12_Witness ==
    /\ last.op = "generate_chapter_content"
    /\ req.failed = "commit_error"
    /\ req.ai_called
    /\ req.status = "500"
    /\ Truthy(db.chapters[last.arg].content)
    /\ db = last.before

----------------------------------------------------------------------------
(* One generation request, blocking or streaming, on a store in which the   *)
(* chapter asked for or its project may be missing. A chapter without its   *)
(* project row is what a request holds that fetched the chapter before a    *)
(* delete_project committed, and what an import of such rows leaves         *)
(* (data_export.py adds the rows of a backup unchecked).                   *)

\* an id no chapter has
NoSuchChapter == MaxChapters + 1

RequestIds == ChapterIds \cup {NoSuchChapter}

InitFail ==
    /\ \E written \in {0, MaxChapters}, project \in BOOLEAN :
          db = IF project THEN StoreOf(WrittenUpTo(written), FALSE)
               ELSE [StoreOf(WrittenUpTo(written), FALSE) EXCEPT
                        !.projects = Without(@, "p1")]
    /\ req = NoRequest
    /\ gen = IdleGen
    /\ sess = NoSession
    /\ events = <<>>
    /\ obs = NoObs
    /\ last = NoLast
    /\ ctx = NoCtx

BlockingRequest ==
    \E cid \in RequestIds : req.kind = "none" /\ generate_chapter_content(cid)

FirstStreamRequest ==
    \E cid \in RequestIds : req.kind = "none" /\ generate_chapter_content_stream(cid)

NextFail ==
    \/ BlockingRequest
    \/ FirstStreamRequest
    \/ Generator
    \/ OtherRequest

SpecFail == InitFail /\ [][NextFail]_vars

\* the generator's validation found the chapter or the project missing
ValidationFailed ==
    \E k \in 1..Len(events) :
        events[k] \in {Event("error", <<"chapter">>), Event("error", <<"project">>)}

\* C19 (streaming validation): when the generator's validation step finds the
\* chapter or the project missing, the stream consists of exactly one error
\* event (no start, content or done event), the Generation Client is never
\* called and the generator's session never commits.
C19_ValidationError ==
    ValidationFailed =>
        /\ Len(events) = 1
        /\ ~req.ai_called
        /\ obs.commits = 0
        /\ gen.full_content = <<>>

\* another client deleted the chapter after the pre-flight check; the stream
\* ended with the one error event
C19_Witness ==
    /\ Exited
    /\ events = <<Event("error", <<"chapter">>)>>
    /\ last.op = "delete_chapter"
    /\ sess.closed
    /\ obs.commits = 0

----------------------------------------------------------------------------
(* Claims about the reports of failures *)

\* the request was refused for a missing chapter, a missing project or a
\* precondition violation
ReportedEarlyError ==
    \/ req.status \in {"404", "400"}
    \/ req.failed = "no_project"
    \/ \E k \in 1..Len(events) :
          events[k] \in {Event("error", <<"chapter">>), Event("error", <<"project">>)}

\* C13 (fail fast): in the blocking and in the streaming workflow, a run that
\* reports a missing chapter, a missing project or a precondition violation
\* has not called the Generation Client, and does not call it afterwards.
C13_FailFast == ReportedEarlyError => ~req.ai_called

\* the project vanished between the pre-flight check and the generator's
\* validation: one error event, the stream ended, the client never called
C13_Witness ==
    /\ req.kind = "stream"
    /\ Exited
    /\ events = <<Event("error", <<"project">>)>>
    /\ last.op = "delete_project"
    /\ ~req.ai_called

\* the failure class of the blocking request just answered, from the store it
\* ran on: the first of these that applies
FailureClass ==
    LET b   == last.before
        cid == req.chapter_id
    IN  IF cid \notin DOMAIN b.chapters THEN "not_found"
        ELSE IF \E i \in DOMAIN b.chapters :
                   /\ b.chapters[i].project_id = b.chapters[cid].project_id
                   /\ b.chapters[i].chapter_number < b.chapters[cid].chapter_number
                   /\ Blank(b.chapters[i].content)
             THEN "precondition"
        ELSE IF b.chapters[cid].project_id \notin DOMAIN b.projects THEN "not_found"
        ELSE IF req.failed # "none" THEN "server"
        ELSE "none"

StatusOf(class) ==
    CASE class = "not_found"    -> "404"
      [] class = "precondition" -> "400"
      [] class = "server"       -> "500"
      [] class = "none"         -> "200"

\* C14 (failure classes of the blocking endpoint): a missing chapter or a
\* missing project is answered 404, a precondition violation 400, a failure
\* of generation or persistence 500.
C14_FailureClassStatus ==
    (req.kind = "blocking" /\ last.op = "generate_chapter_content")
        => req.status = StatusOf(FailureClass)

\* the request has built its prompt
Prompted == req.prompt.template # "none"

\* the request ended in success: status 200, or the done event
Succeeded ==
    \/ req.kind = "blocking" /\ req.status = "200"
    \/ req.kind = "stream" /\ \E k \in 1..Len(events) : events[k].type = "done"

\* C20 (template branch): in both workflows the prompt is formatted from the
\* no-context template exactly when the request has no prerequisite chapters,
\* and then carries no previous-content section; with at least one
\* prerequisite chapter it is formatted from the continuation template and
\* carries the previous-content section. A successful generation leaves the
\* chapter, the one at position 1 included, with status completed.
C20_TemplateBranch ==
    /\ Prompted =>
          /\ req.prompt.template = "CHAPTER_GENERATION" <=> req.previous = <<>>
          /\ req.previous = <<>> => req.prompt.previous_content = <<>>
          /\ req.previous # <<>> =>
                /\ req.prompt.template = "CHAPTER_GENERATION_WITH_CONTEXT"
                /\ req.prompt.previous_content.sections # <<>>
                /\ Len(req.prompt.previous_content.early)
                      + Len(req.prompt.previous_content.recent) = Len(req.previous)
    /\ Succeeded =>
          /\ last.op \notin {"delete_chapter", "delete_project"}
                => req.chapter_id \in DOMAIN db.chapters
          /\ req.chapter_id \in DOMAIN db.chapters
                => db.chapters[req.chapter_id].status = "completed"

\* first chapter of a project without written chapters, streamed to the end
C20_Witness ==
    /\ req.kind = "stream"
    /\ Exited
    /\ \E k \in 1..Len(events) : events[k].type = "done"
    /\ req.seen[req.chapter_id].chapter_number = 1
    /\ \A c \in DOMAIN req.seen : req.seen[c].content = NULL
    /\ req.prompt = get_chapter_generation_prompt
    /\ db.chapters[req.chapter_id].status = "completed"

----------------------------------------------------------------------------
(* Outline reordering and outline generation: outlines.py:251-324, 396-472, *)
(* 618-661                                                                  *)

\* outlines.py:251-324  orders is the request's list of <<outline id, new order>>.
\* Step one (lines 266-291) looks up each outline and the first chapter at its
\* old position, in a dictionary keyed by outline id; step two (294-305) writes
\* the new positions and the outline's title into the rows found.
reorder_outlines(orders) ==
    LET present == SelectSeq(orders, LAMBDA it : it[1] \in DOMAIN db.outlines)
        ids     == {present[k][1] : k \in 1..Len(present)}
        \* a key keeps the place of its first item and the value of its last
        place(o)     == CHOOSE k \in 1..Len(present) :
                           /\ present[k][1] = o
                           /\ \A j \in 1..(k - 1) : present[j][1] # o
        new_order(o) == present[CHOOSE k \in 1..Len(present) :
                                   /\ present[k][1] = o
                                   /\ \A j \in (k + 1)..Len(present) : present[j][1] # o][2]
        hit(o)  == {c \in DOMAIN db.chapters :
                       /\ db.chapters[c].project_id = db.outlines[o].project_id
                       /\ db.chapters[c].chapter_number = db.outlines[o].order_index}
    IN  /\ \E pick \in [ids -> DOMAIN db.chapters \cup {0}] :
              \* line 288: .first() of a query without ORDER BY, or None
              /\ \A o \in ids : IF hit(o) = {} THEN pick[o] = 0 ELSE pick[o] \in hit(o)
              /\ db' = [db EXCEPT
                          !.outlines = [o \in DOMAIN db.outlines |->
                              IF o \in ids
                              THEN [db.outlines[o] EXCEPT !.order_index = new_order(o)]
                              ELSE db.outlines[o]],
                          !.chapters = [c \in DOMAIN db.chapters |->
                              IF \E o \in ids : pick[o] = c
                              THEN LET o == CHOOSE x \in ids :
                                              /\ pick[x] = c
                                              /\ \A y \in ids :
                                                    pick[y] = c => place(y) <= place(x)
                                   IN  [db.chapters[c] EXCEPT
                                          !.chapter_number = new_order(o),
                                          !.title = db.outlines[o].title]
                              ELSE db.chapters[c]]]
        /\ Done("reorder_outlines", TRUE, 0)
        /\ UNCHANGED <<req, gen, sess, events, obs, ctx>>

\* outlines.py:618-661  outline_data lists the chapter_number of each entry the
\* Generation Client returned, 0 for an entry without one; idx counts from 0
RECURSIVE _save_outlines(_, _, _, _, _)
_save_outlines(store, project_id, outline_data, start_index, idx) ==
    IF outline_data = <<>> THEN store
    ELSE LET order_idx == IF Head(outline_data) = 0 THEN start_index + idx
                          ELSE Head(outline_data)
             oid == FreshId(store.outlines, OutlineIds)
             cid == FreshId(store.chapters, ChapterIds)
         IN  _save_outlines(
                 [store EXCEPT
                    !.outlines = With(@, oid,
                        OutlineRow(project_id, order_idx, TitleOf(oid), <<"o">>)),
                    !.chapters = With(@, cid,
                        ChapterRow(project_id, order_idx, TitleOf(oid), NULL, 0, "draft"))],
                 project_id, Tail(outline_data), start_index, idx + 1)

\* outlines.py:396-472  a new outline replaces the outlines and chapters of the project
_generate_new_outline(pid, outline_data) ==
    LET cleared == [db EXCEPT
                      !.outlines = [o \in {j \in DOMAIN db.outlines :
                                              db.outlines[j].project_id # pid}
                                      |-> db.outlines[o]],
                      !.chapters = [c \in DOMAIN db.chapters \ ChaptersOf(db.chapters, pid)
                                      |-> db.chapters[c]]]
    IN  /\ pid \in DOMAIN db.projects
        /\ Cardinality(OutlineIds \ DOMAIN cleared.outlines) >= Len(outline_data)
        /\ Cardinality(ChapterIds \ DOMAIN cleared.chapters) >= Len(outline_data)
        /\ db' = [_save_outlines(cleared, pid, outline_data, 1, 0) EXCEPT
                    !.history = Append(@, HistoryRow(pid, 0, <<"o">>))]
        /\ Done("_generate_new_outline", TRUE, 0)
        /\ UNCHANGED <<req, gen, sess, events, obs, ctx>>

\* requests to reorder: up to MaxItems items
ReorderRequests ==
    UNION {[1..n -> OutlineIds \X Positions] : n \in 1..MaxItems}

\* outlines the Generation Client returns: up to MaxItems entries, numbered or not
OutlineData ==
    UNION {[1..n -> 0..MaxItems] : n \in 1..MaxItems}

NextPos ==
    \/ \E pid \in ProjectIds, number \in Positions :
          More /\ create_chapter(pid, number, <<"a">>)
    \/ \E cid \in ChapterIds : More /\ delete_chapter(cid)
    \/ \E pid \in ProjectIds, order_index \in Positions :
          More /\ create_outline(pid, order_index, <<"o">>)
    \/ \E oid \in OutlineIds : More /\ delete_outline(oid)
    \/ \E orders \in ReorderRequests : More /\ reorder_outlines(orders)
    \/ \E outline_data \in OutlineData :
          More /\ _generate_new_outline("p1", outline_data)

SpecPos == InitStore /\ [][NextPos]_vars

----------------------------------------------------------------------------
(* Claims about positions *)

\* C15 (dense positions): after any sequence of outline and chapter operations
\* the chapter positions of every project are exactly 1..N, each position
\* taken by one chapter.
C15_DensePositions ==
    \A p \in ProjectIds :
        LET cs == ChaptersOf(db.chapters, p)
        IN  \A k \in 1..Cardinality(cs) :
               Cardinality({c \in cs : db.chapters[c].chapter_number = k}) = 1

\* C16 (outline/chapter pairing): after any sequence of outline and chapter
\* operations every outline at position i of a project has a chapter of that
\* project at position i.
C16_OutlineChapterPairing ==
    \A o \in DOMAIN db.outlines :
        \E c \in DOMAIN db.chapters :
            /\ db.chapters[c].project_id = db.outlines[o].project_id
            /\ db.chapters[c].chapter_number = db.outlines[o].order_index

----------------------------------------------------------------------------
(* User manager: user_manager.py and api/users.py.                          *)
(* Here db is the content of the two files the manager keeps: users maps a  *)
(* user id to its is_admin field (users.json), admins is the administrator  *)
(* list (admins.json). req is the set of callers that passed require_admin  *)
(* and whose handler has not run yet.                                       *)

UserIds == 1..MaxUsers

Members(list) == {list[k] : k \in 1..Len(list)}

\* Python list.remove(x): drops the first occurrence
RECURSIVE Removed(_, _)
Removed(list, x) ==
    IF list = <<>> THEN <<>>
    ELSE IF Head(list) = x THEN Tail(list)
    ELSE <<Head(list)>> \o Removed(Tail(list), x)

\* user_manager.py:239-277 without the check of lines 267-268
UserManager_set_admin_unguarded(store, user_id, is_admin) ==
    IF user_id \notin DOMAIN store.users THEN [ok |-> FALSE, store |-> store]
    ELSE LET admin_list ==
                 IF is_admin
                 THEN IF user_id \notin Members(store.admins)
                      THEN Append(store.admins, user_id) ELSE store.admins
                 ELSE Removed(store.admins, user_id)
         IN  [ok |-> TRUE,
              store |-> [users |-> [store.users EXCEPT ![user_id] = is_admin],
                         admins |-> admin_list]]

\* user_manager.py:239-277
UserManager_set_admin(store, user_id, is_admin) ==
    IF user_id \notin DOMAIN store.users
    THEN [ok |-> FALSE, store |-> store]                       \* lines 254-255
    ELSE IF is_admin
    THEN [ok |-> TRUE,                                          \* lines 259-263
          store |-> [users |-> [store.users EXCEPT ![user_id] = TRUE],
                     admins |-> IF user_id \notin Members(store.admins)
                                THEN Append(store.admins, user_id)
                                ELSE store.admins]]
    ELSE IF user_id \in Members(store.admins) /\ Len(store.admins) <= 1
    THEN [ok |-> FALSE, store |-> store]                       \* lines 267-268
    ELSE [ok |-> TRUE,                                          \* lines 269-275
          store |-> [users |-> [store.users EXCEPT ![user_id] = FALSE],
                     admins |-> Removed(store.admins, user_id)]]

\* user_manager.py:279-313
UserManager_delete_user(store, user_id) ==
    IF user_id \notin DOMAIN store.users THEN [ok |-> FALSE, store |-> store]
    ELSE IF user_id \in Members(store.admins) THEN [ok |-> FALSE, store |-> store]
    ELSE [ok |-> TRUE,
          store |-> [store EXCEPT
                       !.users = [u \in DOMAIN store.users \ {user_id} |-> store.users[u]]]]

\* users.py:40-45  the dependency runs before the handler; a caller who passes
\* it stays authorised until the handler has run
require_admin(user) ==
    /\ user \in DOMAIN db.users
    /\ user \in Members(db.admins)
    /\ user \notin req
    /\ req' = req \cup {user}
    /\ UNCHANGED <<db, gen, sess, events, obs, last, ctx>>

\* users.py:68-105
set_admin(user_id, is_admin, admin_user) ==
    LET r == IF user_id = admin_user /\ ~is_admin
             THEN [ok |-> FALSE, store |-> db]                  \* lines 82-86
             ELSE UserManager_set_admin(db, user_id, is_admin)  \* line 89
    IN  /\ admin_user \in req
        /\ req' = req \ {admin_user}
        /\ db' = r.store
        /\ Done("set_admin", r.ok,
                [user_id |-> user_id, is_admin |-> is_admin, admin_user |-> admin_user])
        /\ UNCHANGED <<gen, sess, events, obs, ctx>>

\* users.py:108-131
delete_user(user_id, admin_user) ==
    LET r == UserManager_delete_user(db, user_id)
    IN  /\ admin_user \in req
        /\ req' = req \ {admin_user}
        /\ db' = r.store
        /\ Done("delete_user", r.ok,
                [user_id |-> user_id, is_admin |-> FALSE, admin_user |-> admin_user])
        /\ UNCHANGED <<gen, sess, events, obs, ctx>>

\* user_manager.py:118-198  a login; privileged says that the user is the
\* initial administrator of the configuration or a local user
create_or_update_from_linuxdo(user_id, privileged) ==
    LET listed == user_id \in Members(db.admins)
        admin_list == IF privileged /\ ~listed THEN Append(db.admins, user_id)
                      ELSE db.admins
        flag == IF user_id \in DOMAIN db.users THEN privileged \/ listed
                ELSE privileged
    IN  /\ db' = [users |-> [u \in DOMAIN db.users \cup {user_id} |->
                                IF u = user_id THEN flag ELSE db.users[u]],
                  admins |-> admin_list]
        /\ Done("create_or_update_from_linuxdo", TRUE,
                [user_id |-> user_id, is_admin |-> flag, admin_user |-> user_id])
        /\ UNCHANGED <<req, gen, sess, events, obs, ctx>>

\* lists without repetition over a set of users
Lists(S) ==
    UNION {{l \in [1..n -> S] : \A i, j \in 1..n : l[i] = l[j] => i = j} :
              n \in 0..Cardinality(S)}

InitAdmin ==
    /\ \E U \in SUBSET UserIds : \E admin_list \in Lists(U) :
          /\ admin_list # <<>>
          /\ db = [users |-> [u \in U |-> u \in Members(admin_list)],
                   admins |-> admin_list]
    /\ req = {}
    /\ gen = IdleGen
    /\ sess = NoSession
    /\ events = <<>>
    /\ obs = NoObs
    /\ last = NoLast
    /\ ctx = NoCtx

NextAdmin ==
    \/ \E user \in UserIds : More /\ require_admin(user)
    \/ \E user_id \in UserIds, is_admin \in BOOLEAN, admin_user \in UserIds :
          More /\ set_admin(user_id, is_admin, admin_user)
    \/ \E user_id \in UserIds, admin_user \in UserIds :
          More /\ delete_user(user_id, admin_user)
    \/ \E user_id \in UserIds, privileged \in BOOLEAN :
          More /\ create_or_update_from_linuxdo(user_id, privileged)

SpecAdmin == InitAdmin /\ [][NextAdmin]_vars

\* the last call asked to revoke the only administrator of the list
RevokedLast ==
    /\ last.op = "set_admin"
    /\ ~last.arg.is_admin
    /\ last.before.admins = <<last.arg.user_id>>

\* C17 (at least one administrator): from a non-empty administrator list, the
\* list is non-empty after any sequence of set_admin and delete_user calls, and
\* a set_admin that would revoke the last administrator fails and leaves the
\* list as it was.
C17_AdministratorKept ==
    /\ db.admins # <<>>
    /\ RevokedLast => ~last.ok /\ db.admins = last.before.admins

\* two administrators revoke each other; the second call reaches the manager
\* and is refused there
C17_Witness ==
    /\ RevokedLast
    /\ last.arg.admin_user # last.arg.user_id
    /\ ~last.ok
    /\ last.n = MaxOps
    /\ last.arg.user_id \in DOMAIN db.users

----------------------------------------------------------------------------
(* API configurations: api/api_configs.py.                                  *)
(* Here db.configs maps a configuration id to its name and is_default flag; *)
(* every handler works for the one user "default_user". Each request has    *)
(* its own session: req maps a client to the objects its handler has read   *)
(* so far. A handler reads at its first awaits and writes at its commit;    *)
(* other handlers run between the two.                                      *)

ConfigIds == 1..MaxConfigs
ConfigNames == 1..MaxConfigs
Clients == 1..MaxClients

NoHandler == [kind |-> "none", config_id |-> 0, name |-> 0, is_default |-> "unset",
              default_configs |-> {}]

\* select ... where is_default == True
DefaultConfigs(configs) == {c \in DOMAIN configs : configs[c].is_default}

Pending == {k \in Clients : req[k].kind # "none"}

\* a further request is accepted
MoreConfig == last.n + Cardinality(Pending) < MaxOps

Reads(k, h) ==
    /\ req' = [req EXCEPT ![k] = h]
    /\ obs' = [overlapped |-> obs.overlapped \/ Pending \ {k} # {}]
    /\ UNCHANGED <<db, last>>

Refused(op, arg) ==
    /\ Done(op, FALSE, arg)
    /\ UNCHANGED <<db, req, obs>>

\* api_configs.py:56-93  up to the commit
create_api_config(k, name, is_default) ==
    /\ req[k].kind = "none"
    /\ Cardinality(DOMAIN db.configs)
          + Cardinality({j \in Pending : req[j].kind = "create_api_config"}) < MaxConfigs
    /\ IF \E c \in DOMAIN db.configs : db.configs[c].name = name
       THEN Refused("create_api_config", 0)                     \* lines 71-75
       ELSE Reads(k, [kind |-> "create_api_config", config_id |-> 0, name |-> name,
                      is_default |-> IF is_default THEN "true" ELSE "false",
                      default_configs |->
                          IF is_default THEN DefaultConfigs(db.configs) ELSE {}])
    /\ UNCHANGED <<gen, sess, events, ctx>>

\* api_configs.py:99-158  up to the commit; is_default is "unset" when the
\* request does not carry the field, and then no field of the row changes here
update_api_config(k, config_id, is_default) ==
    /\ req[k].kind = "none"
    /\ IF config_id \notin DOMAIN db.configs
       THEN Refused("update_api_config", config_id)             \* lines 115-119
       ELSE Reads(k, [kind |-> "update_api_config", config_id |-> config_id,
                      name |-> db.configs[config_id].name, is_default |-> is_default,
                      default_configs |->
                          IF is_default = "true"
                          THEN DefaultConfigs(db.configs) \ {config_id} ELSE {}])
    /\ UNCHANGED <<gen, sess, events, ctx>>

\* api_configs.py:164-184  up to the commit
delete_api_config(k, config_id) ==
    /\ req[k].kind = "none"
    /\ IF config_id \notin DOMAIN db.configs
       THEN Refused("delete_api_config", config_id)
       ELSE Reads(k, [NoHandler EXCEPT !.kind = "delete_api_config",
                                       !.config_id = config_id])
    /\ UNCHANGED <<gen, sess, events, ctx>>

\* api_configs.py:188-221  up to the commit
set_default_config(k, config_id) ==
    /\ req[k].kind = "none"
    /\ IF config_id \notin DOMAIN db.configs
       THEN Refused("set_default_config", config_id)            \* lines 203-207
       ELSE Reads(k, [kind |-> "set_default_config", config_id |-> config_id,
                      name |-> db.configs[config_id].name, is_default |-> "true",
                      default_configs |-> DefaultConfigs(db.configs)])
    /\ UNCHANGED <<gen, sess, events, ctx>>

\* the rows a handler's commit writes: the flush updates each changed object
\* by its primary key
Flushed(configs, h) ==
    LET cleared == [c \in DOMAIN configs |->
                       IF c \in h.default_configs
                       THEN [configs[c] EXCEPT !.is_default = FALSE] ELSE configs[c]]
    IN  CASE h.kind = "create_api_config" ->
                 With(cleared, FreshId(configs, ConfigIds),
                      [name |-> h.name, is_default |-> h.is_default = "true"])
          [] h.kind = "delete_api_config" -> Without(configs, h.config_id)
          [] h.is_default = "unset" -> cleared
          [] OTHER -> [cleared EXCEPT ![h.config_id].is_default = h.is_default = "true"]

\* the flush fails: a row to update or delete is gone, or the name is taken
FlushFails(configs, h) ==
    \/ h.default_configs \ DOMAIN configs # {}
    \/ h.kind # "create_api_config" /\ h.config_id \notin DOMAIN configs
    \/ h.kind = "create_api_config" /\ \E c \in DOMAIN configs : configs[c].name = h.name

\* await db.commit() of the four handlers: lines 93, 158, 184, 219
commit_api_config(k) ==
    /\ req[k].kind # "none"
    /\ IF FlushFails(db.configs, req[k])
       THEN db' = db
       ELSE db' = [db EXCEPT !.configs = Flushed(db.configs, req[k])]
    /\ req' = [req EXCEPT ![k] = NoHandler]
    /\ Done(req[k].kind, ~FlushFails(db.configs, req[k]), req[k].config_id)
    /\ UNCHANGED <<gen, sess, events, obs, ctx>>

InitConfig ==
    /\ \E n \in 0..MaxConfigs : \E default \in 0..n :
          db = [configs |-> [c \in 1..n |-> [name |-> c, is_default |-> c = default]]]
    /\ req = [k \in Clients |-> NoHandler]
    /\ gen = IdleGen
    /\ sess = NoSession
    /\ events = <<>>
    /\ obs = [overlapped |-> FALSE]
    /\ last = NoLast
    /\ ctx = NoCtx

NextConfig ==
    \/ \E k \in Clients, name \in ConfigNames, is_default \in BOOLEAN :
          MoreConfig /\ create_api_config(k, name, is_default)
    \/ \E k \in Clients, config_id \in ConfigIds, is_default \in {"unset", "true", "false"} :
          MoreConfig /\ update_api_config(k, config_id, is_default)
    \/ \E k \in Clients, config_id \in ConfigIds :
          MoreConfig /\ delete_api_config(k, config_id)
    \/ \E k \in Clients, config_id \in ConfigIds :
          MoreConfig /\ set_default_config(k, config_id)
    \/ \E k \in Clients : commit_api_config(k)

SpecConfig == InitConfig /\ [][NextConfig]_vars

\* C18 (at most one default): after any sequence of create_api_config,
\* update_api_config, set_default_config and delete_api_config requests at most
\* one configuration of the user has is_default = true.
C18_AtMostOneDefault ==
    Cardinality(DefaultConfigs(db.configs)) <= 1

\* the same, for handlers that never ran while another one was in progress
SequentialDefaults ==
    ~obs.overlapped => Cardinality(DefaultConfigs(db.configs)) <= 1

----------------------------------------------------------------------------
(* Further claims about the streaming workflow *)

\* the tokens carried by the content events, in the order of emission
ContentTokens ==
    LET content == SelectSeq(events, LAMBDA e : e.type = "content")
    IN  [k \in 1..Len(content) |-> content[k].payload]

RECURSIVE Concat(_)
Concat(tokens) == IF tokens = <<>> THEN <<>> ELSE Head(tokens) \o Concat(Tail(tokens))

\* the step in which the generator's commit succeeds
Commits == ~gen.db_committed /\ gen'.db_committed

\* C21: the content events carry the tokens of the Generation Client one by
\* one, in order; the commit of a streaming run stores as chapter content the
\* concatenation of the tokens of the content events emitted in that run, with
\* its length as word count; the done event carries that length.
C21_ContentIsTokens ==
    /\ [](ContentTokens = gen.stream)
    /\ [](Emitted("done") =>
             events[Len(events)] = Event("done", <<StrLen(Concat(ContentTokens))>>))
    /\ [][Commits =>
             /\ db'.chapters[gen.chapter_id].content = Concat(ContentTokens)
             /\ db'.chapters[gen.chapter_id].word_count = StrLen(Concat(ContentTokens))]_vars

\* two different tokens, committed and reported
C21_Witness ==
    /\ Emitted("done")
    /\ ContentTokens = <<<<"b", WS>>, <<"a">>>>
    /\ last.n = 0
    /\ db.chapters[gen.chapter_id].content = <<"b", WS, "a">>
    /\ events[Len(events)].payload = <<3>>

\* the prerequisite data the pre-flight check of the streaming request captured
Captured == PreviousChaptersData(req.seen, req.previous)

\* C22: the prompt of the streaming generator carries the previous content
\* built from the prerequisite data captured by the pre-flight check, whatever
\* other requests did to those chapters since, while the generator takes the
\* chapter row and the project row from the store as it is when it reads them.
C22_CapturedPrerequisites ==
    /\ [](req.kind = "stream" /\ Prompted =>
             /\ gen.previous_chapters_data = Captured
             /\ req.prompt = ChapterPrompt(BuildPreviousContent(Captured)))
    /\ [][gen.pc = "fetch_chapter" /\ gen'.pc = "fetch_project" =>
             gen'.current_chapter = db.chapters[gen.chapter_id]]_vars
    /\ [][gen.pc = "fetch_project" /\ gen'.pc = "fetch_outline" =>
             gen'.project_words = db.projects[gen'.current_chapter.project_id]]_vars

\* another request emptied a prerequisite chapter after the pre-flight check
\* and before the prompt was built; the prompt still carries the old content
C22_Witness ==
    /\ req.kind = "stream"
    /\ Prompted
    /\ obs.commits = 0
    /\ last.op = "update_chapter"
    /\ \E k \in 1..Len(req.previous) :
          /\ req.previous[k] = last.arg
          /\ db.chapters[last.arg].content # req.seen[last.arg].content
          /\ req.prompt.previous_content.recent[k].content = req.seen[last.arg].content

\* the final state the two workflows are to agree on: chapter cid of store
\* before holds text, counted and completed, the total of its project is
\* moved by the difference of the counts, and one history row is added
FinalState(store, cid, text) ==
    LET ch  == store.chapters[cid]
        pid == ch.project_id
    IN  [projects |-> [p \in DOMAIN store.projects |->
                          IF p = pid
                          THEN store.projects[p] - ch.word_count + StrLen(text)
                          ELSE store.projects[p]],
         chapters |-> [c \in DOMAIN store.chapters |->
                          IF c = cid
                          THEN [ch EXCEPT !.content = text, !.word_count = StrLen(text),
                                          !.status = "completed"]
                          ELSE store.chapters[c]],
         outlines |-> store.outlines,
         history  |-> Append(store.history,
                             HistoryRow(pid, cid, Prefix(text, HistoryLen)))]

\* the store a streaming request started from, no other request having run
StreamBefore ==
    [projects |-> [p \in DOMAIN db.projects |-> SumWords(req.seen, ChaptersOf(req.seen, p))],
     chapters |-> req.seen, outlines |-> <<>>, history |-> <<>>]

\* C23 (streaming and blocking agree): from the same stored state, a streaming
\* run that commits after tokens t1..tm and a blocking run that generates the
\* text t1..tm leave the same store: the chapter holds the text with its
\* length as word count and status completed, the project total is the old
\* total less the chapter's old words plus its new words, and one
\* GenerationHistory row is added.
C23_StreamingMatchesBlocking ==
    /\ (req.kind = "blocking" /\ req.status = "200") =>
          db = FinalState(last.before, req.chapter_id, db.chapters[req.chapter_id].content)
    /\ (req.kind = "stream" /\ gen.db_committed /\ last.n = 0) =>
          db = FinalState(StreamBefore, req.chapter_id, Concat(gen.stream))

\* a chapter that already had content, generated again by a stream of two
\* tokens that ended naturally
C23_Witness ==
    /\ req.kind = "stream"
    /\ Exited
    /\ Emitted("done")
    /\ obs.cancel_at = "none"
    /\ last.n = 0
    /\ req.seen[req.chapter_id].word_count > 0
    /\ Len(gen.stream) = MaxTokens

\* what an error event of the generator can report: a row missing at its
\* validation, or the await at which an exception was raised
GeneratorErrors ==
    {Event("error", <<"chapter">>), Event("error", <<"project">>)}
        \cup {Event("error", <<p>>) : p \in AwaitPoints}

\* C25 (check-then-act): once the pre-flight check of a streaming request has
\* passed, the precondition is not checked again: no error event of the run
\* reports a precondition failure, and the run commits also when a chapter at
\* a lower position has lost its content in the meantime.
C25_CheckNotRepeated ==
    /\ req.status = "streaming" =>
          \A k \in 1..Len(events) : events[k].type = "error" => events[k] \in GeneratorErrors
    /\ (gen.pc = "commit" /\ RowsPresent) => ENABLED Commit

\* the pre-flight check passed, another request then emptied a prerequisite
\* chapter before the commit, and the generation committed; the check would
\* now refuse the same request
C25_Witness ==
    /\ gen.db_committed
    /\ Emitted("done")
    /\ last.op = "update_chapter"
    /\ last.before.history = <<>>
    /\ \E k \in 1..Len(req.previous) : req.previous[k] = last.arg
    /\ last.arg \in DOMAIN db.chapters
    /\ Incomplete(db.chapters[last.arg].content)
    /\ ~Incomplete(req.seen[last.arg].content)
    /\ ~check_prerequisites(db.chapters, req.chapter_id).can

\* C26 (cancellation after commit): once the commit of the streaming generator
\* has succeeded, no step of the generator issues a rollback or changes the
\* store, however the run ends (exception or cancellation during the refresh,
\* disconnect at the done event); a rollback is issued only while db_committed
\* is false and the session has a transaction open.
C26_NothingAfterCommit ==
    /\ [][gen.db_committed => obs'.rollbacks = obs.rollbacks]_vars
    /\ [][(gen.db_committed /\ last' = last) => db' = db]_vars
    /\ [][obs'.rollbacks > obs.rollbacks =>
             (sess.db_session /\ ~gen.db_committed /\ sess.in_transaction)]_vars

\* the refresh after the commit raised; the error handler and the finally
\* block ran, and what was committed is still there
C26_Witness ==
    /\ Exited
    /\ gen.db_committed
    /\ gen.exc = "refresh"
    /\ obs.rollbacks = 0
    /\ last.n = 0
    /\ db = FinalState(StreamBefore, req.chapter_id, Concat(gen.stream))
    /\ Len(gen.stream) > 0

----------------------------------------------------------------------------
(* A streaming generation and an update of chapter content, each in its own *)
(* session. Here ctx holds the locals of update_chapter between its reads   *)
(* (chapters.py:108-131) and its commit (line 136).                         *)

NoUpdate ==
    [pc |-> "none", chapter_id |-> 0, content |-> <<>>, old_word_count |-> 0,
     project_words |-> 0, held_at_read |-> FALSE, committed_at_read |-> FALSE,
     held_at_commit |-> FALSE, committed_at_commit |-> FALSE]

\* the generator has read the chapter's word count, and then the project
\* total, and has not committed yet
GenHolds ==
    gen.pc \in {"fetch_project", "fetch_outline", "fetch_outlines", "fetch_characters", "yield_start",
                "await_token", "yield_content", "sleep", "commit"}

\* chapters.py:108-131  the chapter and, the content being non-empty, the project
UpdateRead(cid, content) ==
    /\ ctx.pc = "none"
    /\ cid \in DOMAIN db.chapters
    /\ db.chapters[cid].project_id \in DOMAIN db.projects
    /\ Truthy(content)
    /\ ctx' = [ctx EXCEPT
                 !.pc = "commit", !.chapter_id = cid, !.content = content,
                 !.old_word_count = OrZero(db.chapters[cid].word_count),
                 !.project_words = db.projects[db.chapters[cid].project_id],
                 !.held_at_read = GenHolds, !.committed_at_read = gen.db_committed]
    /\ UNCHANGED <<db, req, gen, sess, events, obs, last>>

\* the commit of line 136 without the write of line 133
UpdateCommitNoTotal ==
    /\ ctx.pc = "commit"
    /\ db' = [db EXCEPT !.chapters[ctx.chapter_id] =
                             [@ EXCEPT !.content = ctx.content,
                                       !.word_count = StrLen(ctx.content)]]
    /\ ctx' = [ctx EXCEPT !.pc = "done", !.held_at_commit = GenHolds,
                          !.committed_at_commit = gen.db_committed]
    /\ UNCHANGED <<req, gen, sess, events, obs, last>>

\* chapters.py:122-136  the writes of the session reach the store
UpdateCommit ==
    /\ ctx.pc = "commit"
    /\ LET ch == db.chapters[ctx.chapter_id]
           new_word_count == StrLen(ctx.content)
       IN  db' = [db EXCEPT
                    !.chapters[ctx.chapter_id] =
                        [ch EXCEPT !.content = ctx.content, !.word_count = new_word_count],
                    !.projects[ch.project_id] =
                        ctx.project_words - ctx.old_word_count + new_word_count]
    /\ ctx' = [ctx EXCEPT !.pc = "done", !.held_at_commit = GenHolds,
                          !.committed_at_commit = gen.db_committed]
    /\ UNCHANGED <<req, gen, sess, events, obs, last>>

InitRace ==
    /\ \E written \in 0..MaxChapters : db = StoreOf(WrittenUpTo(written), FALSE)
    /\ req = NoRequest
    /\ gen = IdleGen
    /\ sess = NoSession
    /\ events = <<>>
    /\ obs = NoObs
    /\ last = NoLast
    /\ ctx = NoUpdate

NextRace ==
    \/ \E cid \in ChapterIds : req.kind = "none" /\ generate_chapter_content_stream(cid)
    \/ Generator
    \/ \E cid \in ChapterIds : UpdateRead(cid, <<"b", "b">>)
    \/ UpdateCommit

SpecRace == InitRace /\ [][NextRace]_vars

\* current_words of every project is the sum of its chapters' word counts
TotalsMatch ==
    \A p \in DOMAIN db.projects :
        db.projects[p] = SumWords(db.chapters, ChaptersOf(db.chapters, p))

\* both requests had read the counts they write from before either of them
\* committed
Interleaved ==
    /\ ctx.pc = "done"
    /\ \/ ctx.held_at_read
       \/ ctx.held_at_commit
       \/ ctx.committed_at_commit /\ ~ctx.committed_at_read

\* C24 (lost update on the project total): a streaming generation and an
\* update of chapter content of the same project, run one after the other,
\* leave current_words equal to the sum of the chapters' word counts; only
\* interleaved runs, in which both read the total before either commits, can
\* leave it different.
C24_SerialTotalCorrect ==
    ~Interleaved => TotalsMatch

\* both requests read the total, both committed, and the total is wrong
C24_Witness ==
    /\ Interleaved
    /\ gen.db_committed
    /\ Exited
    /\ Emitted("done")
    /\ ~TotalsMatch

----------------------------------------------------------------------------
(* Data consistency: utils/data_consistency.py.                             *)
(* Here db.characters maps a character id to its project and its            *)
(* is_organization flag, and db.organizations is the set of character ids  *)
(* that have an Organization row.                                           *)

CharacterIds == 1..MaxCharacters

\* data_consistency.py:12-59  org is the character id of the row returned, 0 for None
ensure_organization_record(store, character) ==
    IF ~store.characters[character].is_organization
    THEN [org |-> 0, store |-> store]                               \* lines 32-34
    ELSE IF character \notin store.organizations
    THEN [org |-> character,                                        \* lines 42-54
          store |-> [store EXCEPT !.organizations = @ \cup {character}]]
    ELSE [org |-> character, store |-> store]                       \* lines 56-59

\* data_consistency.py:121-130  the loop over org_characters
RECURSIVE FixLoop(_, _, _)
FixLoop(store, chars, fixed_count) ==
    IF chars = {} THEN [fixed |-> fixed_count, store |-> store]
    ELSE LET char == CHOOSE c \in chars : \A d \in chars : c <= d
             r    == ensure_organization_record(store, char)
             \* lines 124-130: org and org.id, then the row is looked up again
             counted == r.org # 0 /\ char \in r.store.organizations
         IN  FixLoop(r.store, chars \ {char},
                     IF counted THEN fixed_count + 1 ELSE fixed_count)

\* data_consistency.py:96-135  (fixed_count, len(org_characters)) and the store
fix_missing_organization_records(store, project_id) ==
    LET org_characters == {c \in DOMAIN store.characters :
                              /\ store.characters[c].project_id = project_id
                              /\ store.characters[c].is_organization}
        r == FixLoop(store, org_characters, 0)
    IN  [fixed |-> r.fixed, total |-> Cardinality(org_characters), store |-> r.store]

\* data_consistency.py:289-319  the organization_records entry of the report
run_full_data_consistency_check(project_id) ==
    LET r == fix_missing_organization_records(db, project_id)
    IN  /\ db' = r.store
        /\ Done("run_full_data_consistency_check", TRUE,
                [project_id |-> project_id, checked |-> r.total, fixed |-> r.fixed,
                 status |-> IF r.fixed = 0 THEN "ok" ELSE "fixed"])
        /\ UNCHANGED <<req, gen, sess, events, obs, ctx>>

\* data_export.py:227-232  the import adds Character rows; their Organization
\* rows come from a separate list of the file and may be absent
add_character(project_id, is_organization) ==
    /\ CharacterIds \ DOMAIN db.characters # {}
    /\ db' = [db EXCEPT !.characters =
                 With(@, FreshId(db.characters, CharacterIds),
                      [project_id |-> project_id, is_organization |-> is_organization])]
    /\ Done("add_character", TRUE, 0)
    /\ UNCHANGED <<req, gen, sess, events, obs, ctx>>

InitOrg ==
    /\ \E n \in 0..MaxCharacters :
       \E projects \in [1..n -> ProjectIds], flags \in [1..n -> BOOLEAN] :
       \E orgs \in SUBSET {c \in 1..n : flags[c]} :
          db = [characters |-> [c \in 1..n |->
                                   [project_id |-> projects[c],
                                    is_organization |-> flags[c]]],
                organizations |-> orgs]
    /\ req = NoRequest
    /\ gen = IdleGen
    /\ sess = NoSession
    /\ events = <<>>
    /\ obs = NoObs
    /\ last = NoLast
    /\ ctx = NoCtx

NextOrg ==
    \/ \E project_id \in ProjectIds : More /\ run_full_data_consistency_check(project_id)
    \/ \E project_id \in ProjectIds, is_organization \in BOOLEAN :
          More /\ add_character(project_id, is_organization)

SpecOrg == InitOrg /\ [][NextOrg]_vars

\* organization characters of the checked project without a record before the run
MissingBefore ==
    {c \in DOMAIN last.before.characters :
        /\ last.before.characters[c].project_id = last.arg.project_id
        /\ last.before.characters[c].is_organization
        /\ c \notin last.before.organizations}

\* C27: after fix_missing_organization_records every organization character
\* of the project has an Organization record, the number it returns as fixed
\* is the number of records it created, and a run on a project where none is
\* missing returns fixed = 0 and is reported as ok.
C27_FixedCountsCreated ==
    last.op = "run_full_data_consistency_check" =>
        /\ \A c \in DOMAIN db.characters :
              (db.characters[c].project_id = last.arg.project_id
                  /\ db.characters[c].is_organization) => c \in db.organizations
        /\ db.organizations = last.before.organizations \cup MissingBefore
        /\ last.arg.fixed = Cardinality(MissingBefore)
        /\ MissingBefore = {} => last.arg.fixed = 0 /\ last.arg.status = "ok"

----------------------------------------------------------------------------
\* C28: an error event and a commit never occur in the same streaming run:
\* whenever the events of the run contain an error event, the generator's
\* session has committed nothing, so the content of the request is not stored.
C28_ErrorExcludesCommit ==
    Emitted("error") => (~gen.db_committed /\ obs.commits_ok = 0)

----------------------------------------------------------------------------
\* the step in which the blocking workflow's commit succeeds (chapters.py:401)
BlockingCommits ==
    /\ req.kind = "none"
    /\ req'.kind = "blocking"
    /\ req'.ai_called
    /\ req'.failed \in {"none", "refresh_error"}

\* C29: whenever the blocking or the streaming workflow commits, the chapter
\* it has set to status completed holds content that is neither empty nor
\* whitespace only, also when the token stream ended without a token, so the
\* row does not count as incomplete in the precondition check of the
\* positions after it.
C29_GeneratedHasContent ==
    /\ [][Commits => /\ db'.chapters[gen.chapter_id].status = "completed"
                     /\ ~Incomplete(db'.chapters[gen.chapter_id].content)]_vars
    /\ [][BlockingCommits =>
             /\ db'.chapters[req'.chapter_id].status = "completed"
             /\ ~Incomplete(db'.chapters[req'.chapter_id].content)]_vars

----------------------------------------------------------------------------
(* User manager, locking: user_manager.py:39-40, 75-116, 118-318.            *)
(* Here db is the content of the two files as above, sess holds the two      *)
(* asyncio locks (locked flag and the queue of waiting tasks) and ctx maps   *)
(* a task of the event loop to the operation it runs, its position in it and *)
(* the locks it holds. A task may be suspended at every lock acquisition;    *)
(* the statements between two acquisitions contain no await and are one step.*)

TaskIds == 1..MaxTasks

LockNames == {"users", "admins"}

\* user_manager.py:39-40
FreeLocks == [n \in LockNames |-> [locked |-> FALSE, waiters |-> <<>>]]

IdleTask == [op |-> "none", pc |-> "idle", user_id |-> 0, is_admin |-> FALSE, holds |-> {}]

\* asyncio.Lock.acquire at "async with": the lock is taken at once when it is
\* free and nobody waits for it, otherwise the task joins the queue
Acquire(t, name, from, wait, held) ==
    /\ ctx[t].pc = from
    /\ IF ~sess[name].locked /\ sess[name].waiters = <<>>
       THEN /\ sess' = [sess EXCEPT ![name].locked = TRUE]
            /\ ctx' = [ctx EXCEPT ![t].pc = held, ![t].holds = @ \cup {name}]
       ELSE /\ sess' = [sess EXCEPT ![name].waiters = Append(@, t)]
            /\ ctx' = [ctx EXCEPT ![t].pc = wait]
    /\ UNCHANGED <<db, req, gen, events, obs, last>>

\* asyncio.Lock.release wakes the first waiter, which then owns the lock
Wake(t, name, wait, held) ==
    /\ ctx[t].pc = wait
    /\ ~sess[name].locked
    /\ sess[name].waiters # <<>>
    /\ Head(sess[name].waiters) = t
    /\ sess' = [sess EXCEPT ![name].locked = TRUE, ![name].waiters = Tail(@)]
    /\ ctx' = [ctx EXCEPT ![t].pc = held, ![t].holds = @ \cup {name}]
    /\ UNCHANGED <<db, req, gen, events, obs, last>>

\* "async with" on one lock
Single(t, name, from, wait, held) ==
    \/ Acquire(t, name, from, wait, held)
    \/ Wake(t, name, wait, held)

\* "async with outer: async with inner:"  (lines 146-147, 251-252, 291-292)
Nested(t, outer, inner) ==
    \/ Single(t, outer, "start", "outer_wait", "outer_held")
    \/ Single(t, inner, "outer_held", "inner_wait", "both_held")

\* __aexit__ of the "async with" blocks the task leaves
Released(locks, names) ==
    [n \in LockNames |-> IF n \in names THEN [locks[n] EXCEPT !.locked = FALSE]
                         ELSE locks[n]]

\* the operation returns: every "async with" block it is in is left
Return(t) ==
    /\ sess' = Released(sess, ctx[t].holds)
    /\ ctx' = [ctx EXCEPT ![t] = IdleTask]
    /\ UNCHANGED <<req, gen, events, obs, last>>

\* user_manager.py:118-198 as a function of the two files
UserManager_create_or_update_from_linuxdo(store, user_id, privileged) ==
    LET listed == user_id \in Members(store.admins)
        flag == IF user_id \in DOMAIN store.users THEN privileged \/ listed
                ELSE privileged
    IN  [users |-> [u \in DOMAIN store.users \cup {user_id} |->
                       IF u = user_id THEN flag ELSE store.users[u]],
         admins |-> IF privileged /\ ~listed THEN Append(store.admins, user_id)
                    ELSE store.admins]

\* user_manager.py:118-198
Task_create_or_update_from_linuxdo(t) ==
    /\ ctx[t].op = "create_or_update_from_linuxdo"
    /\ \/ Nested(t, "users", "admins")
       \/ /\ ctx[t].pc = "both_held"
          /\ db' = UserManager_create_or_update_from_linuxdo(
                       db, ctx[t].user_id, ctx[t].is_admin)
          /\ Return(t)

\* user_manager.py:239-277
Task_set_admin(t) ==
    /\ ctx[t].op = "set_admin"
    /\ \/ Nested(t, "users", "admins")
       \/ /\ ctx[t].pc = "both_held"
          /\ LET r == UserManager_set_admin(db, ctx[t].user_id, ctx[t].is_admin)
             IN  db' = r.store /\ Return(t)

\* user_manager.py:279-313 with the locks taken in the other order
Task_delete_user_reversed(t) ==
    /\ ctx[t].op = "delete_user"
    /\ \/ Nested(t, "admins", "users")
       \/ /\ ctx[t].pc = "both_held"
          /\ LET r == UserManager_delete_user(db, ctx[t].user_id)
             IN  db' = r.store /\ Return(t)

\* user_manager.py:279-313  (the file removal of lines 305-311 has no await)
Task_delete_user(t) ==
    /\ ctx[t].op = "delete_user"
    /\ \/ Nested(t, "users", "admins")
       \/ /\ ctx[t].pc = "both_held"
          /\ LET r == UserManager_delete_user(db, ctx[t].user_id)
             IN  db' = r.store /\ Return(t)

\* leaves the block of the users lock and goes on to the admins lock
LeaveUsers(t) ==
    /\ sess' = Released(sess, {"users"})
    /\ ctx' = [ctx EXCEPT ![t].pc = "between", ![t].holds = @ \ {"users"}]
    /\ UNCHANGED <<db, req, gen, events, obs, last>>

\* user_manager.py:200-224
Task_get_user(t) ==
    /\ ctx[t].op = "get_user"
    /\ \/ Single(t, "users", "start", "users_wait", "users_held")
       \/ /\ ctx[t].pc = "users_held"
          /\ IF ctx[t].user_id \in DOMAIN db.users
             THEN LeaveUsers(t)                              \* lines 210-211
             ELSE db' = db /\ Return(t)               \* line 224
       \/ Single(t, "admins", "between", "admins_wait", "admins_held")
       \/ /\ ctx[t].pc = "admins_held"
          /\ db' = db
          /\ Return(t)

\* user_manager.py:226-237 with _load_users (75-78) and _load_admin_list (108-111)
Task_get_all_users(t) ==
    /\ ctx[t].op = "get_all_users"
    /\ \/ Single(t, "users", "start", "users_wait", "users_held")
       \/ ctx[t].pc = "users_held" /\ LeaveUsers(t)
       \/ Single(t, "admins", "between", "admins_wait", "admins_held")
       \/ /\ ctx[t].pc = "admins_held"
          /\ db' = db
          /\ Return(t)

\* user_manager.py:315-318 with _load_admin_list (108-111)
Task_is_admin(t) ==
    /\ ctx[t].op = "is_admin"
    /\ \/ Single(t, "admins", "start", "admins_wait", "admins_held")
       \/ /\ ctx[t].pc = "admins_held"
          /\ db' = db
          /\ Return(t)

\* the users the calls name: the administrator of the initial files and a
\* user the files do not have at first
CalledIds == {1, 2}

\* the calls of the operations: get_all_users takes no argument, and only
\* set_admin and create_or_update_from_linuxdo (initial administrator or local
\* user) take a flag
Calls ==
    [op : {"create_or_update_from_linuxdo", "set_admin"}, user_id : CalledIds,
     is_admin : BOOLEAN]
      \cup [op : {"get_user", "delete_user", "is_admin"}, user_id : CalledIds,
            is_admin : {FALSE}]
      \cup [op : {"get_all_users"}, user_id : {0}, is_admin : {FALSE}]

\* a request handler calls an operation of the manager in a task of its own,
\* the idle task of lowest number; last.n counts the calls
StartTask(t, call) ==
    /\ ctx[t].pc = "idle"
    /\ \A u \in TaskIds : u < t => ctx[u].pc # "idle"
    /\ ctx' = [ctx EXCEPT ![t] = [op |-> call.op, pc |-> "start",
                                  user_id |-> call.user_id,
                                  is_admin |-> call.is_admin, holds |-> {}]]
    /\ last' = [last EXCEPT !.n = @ + 1]
    /\ UNCHANGED <<db, req, gen, sess, events, obs>>

\* the steps of one task
TaskStep(t) ==
    \/ Task_create_or_update_from_linuxdo(t)
    \/ Task_get_user(t)
    \/ Task_get_all_users(t)
    \/ Task_set_admin(t)
    \/ Task_delete_user(t)
    \/ Task_is_admin(t)

InitLocks ==
    /\ db = [users |-> [u \in {1} |-> TRUE], admins |-> <<1>>]
    /\ req = NoRequest
    /\ gen = IdleGen
    /\ sess = FreeLocks
    /\ events = <<>>
    /\ obs = NoObs
    /\ last = NoLast
    /\ ctx = [t \in TaskIds |-> IdleTask]

NextLocks ==
    \/ \E t \in TaskIds, call \in Calls : More /\ StartTask(t, call)
    \/ \E t \in TaskIds : TaskStep(t)

SpecLocks == InitLocks /\ [][NextLocks]_vars

\* the event loop runs every task that can go on
FairLocks == SpecLocks /\ \A t \in TaskIds : WF_vars(TaskStep(t))

Started(t) == ctx[t].pc # "idle"

\* a lock is locked exactly when one task is inside its block
LocksOwned ==
    \A n \in LockNames :
        /\ sess[n].locked <=> \E t \in TaskIds : n \in ctx[t].holds
        /\ \A t1, t2 \in TaskIds :
              n \in ctx[t1].holds /\ n \in ctx[t2].holds => t1 = t2

\* C30: the operations of the user manager cannot deadlock. A task that takes
\* or waits for the users lock does not hold the admins lock; a task that has
\* returned holds no lock, and a lock is locked only while a task is inside
\* its block; while some operation is under way some task can take a step;
\* and under a fair event loop every started operation completes.
C30_NoDeadlock ==
    /\ [](\A t \in TaskIds :
            /\ ctx[t].pc \in {"users_wait", "outer_wait"} => "admins" \notin ctx[t].holds
            /\ ~Started(t) => ctx[t].holds = {})
    /\ [][\A t \in TaskIds :
             "users" \in ctx'[t].holds /\ "users" \notin ctx[t].holds
                 => "admins" \notin ctx[t].holds]_vars
    /\ []LocksOwned
    /\ []((\E t \in TaskIds : Started(t)) => ENABLED (\E t \in TaskIds : TaskStep(t)))
    /\ \A t \in TaskIds : Started(t) ~> ~Started(t)

\* one task waits for the users lock that another task holds while that task
\* is inside both blocks
C30_Witness ==
    \E t1, t2 \in TaskIds :
        /\ ctx[t1].holds = {"users", "admins"}
        /\ ctx[t2].pc \in {"users_wait", "outer_wait"}
        /\ sess["users"].waiters = <<t2>>

============================================================================
